---------------------------- MODULE Spec2Model ----------------------------
(***************************************************************************)
(* Model of the Awesome Copilot browser extension (vscode-awesome-copilot): *)
(* the listing cache of GitHubService, the collection manifest parser, the  *)
(* collection / skill downloader of extension.ts and the source registry    *)
(* of the manageSources command.                                            *)
(*                                                                          *)
(* Paths are sequences of segments ("a/b/c" is <<"a","b","c">>), strings    *)
(* that are trimmed are sequences of characters, and the remote server is   *)
(* a nondeterministic choice among a small set of responses.                *)
(***************************************************************************)
EXTENDS Integers, Sequences, FiniteSets, TLC

VARIABLES
    now,          \* Date.now(), in milliseconds
    ticks,        \* number of clock advances so far (bounded)
    cache,        \* GitHubService.cache: cache key -> CacheEntry
    calls,        \* every getFilesByRepo call so far, in start order
    doc,          \* the manifest document handed to parseCollectionYaml
    parsed,       \* the outcome of parseCollectionYaml on doc
    sources,      \* the stored source list (RepoStorage)
    dialog,       \* the manageSources dialog: whether open, and its local list
    lastAdd,      \* what the last Add Repository of the dialog did
    removed,      \* the source last removed by a command, and the calls made before
    dl,           \* the collection download in progress (downloadCopilotItem)
    fs,           \* files of the workspace: path -> content
    sk,           \* the skill folder download in progress
    gf,           \* the last getFiles call: its inputs and its merged result
    cleared,      \* the last clearRepoCache call of refreshRepo, and the cache before it
    ledger,       \* the download records of DownloadTracker: item id -> record
    upd,          \* the last hasUpdate call: the live item and the answer
    dc,           \* the getDirectoryContents call in progress: recursion and result
    tls,          \* NODE_TLS_REJECT_UNAUTHORIZED and the requests that override it
    provider,     \* AwesomeCopilotProvider.repoItems, and the load in progress
    bar,          \* the status bar item of StatusBarManager and its hide timer
    store         \* the settings and the global state holding the source list

cacheVars  == <<now, ticks, cache, calls>>
parseVars  == <<doc, parsed>>
sourceVars == <<sources, dialog, lastAdd, removed>>
bundleVars == <<dl>>
skillVars  == <<sk>>
filesVars  == <<gf, cleared>>
trackerVars == <<ledger, upd>>
uiVars == <<provider, bar, store>>
serviceVars == <<dc, tls, uiVars>>
vars == <<now, ticks, cache, calls, doc, parsed, sources, dialog, lastAdd, removed, dl, fs, sk,
          gf, cleared, ledger, upd, dc, tls, provider, bar, store>>

(***************************************************************************)
(* Bounds of the model.                                                    *)
(***************************************************************************)
MaxTicks == 1
MaxCalls == 2
MaxStrLen == 1
MaxItems == 2
MaxContents == 2
MaxGetFiles == 1
MaxClears == 1
MaxListingRequests == 7
MaxOverrides == 2
MaxStatusTime == 7

(***************************************************************************)
(* Generic helpers.                                                        *)
(***************************************************************************)
IsPrefix(p, q) == Len(p) <= Len(q) /\ SubSeq(q, 1, Len(p)) = p

RECURSIVE SeqToSet(_)
SeqToSet(s) == IF s = <<>> THEN {} ELSE {Head(s)} \cup SeqToSet(Tail(s))

(***************************************************************************)
(* Types (types.ts): sources, categories, listing entries.                 *)
(***************************************************************************)
GitHubDotCom == "github.com"

RepoPublic     == [owner |-> "github", repo |-> "awesome-copilot", baseUrl |-> ""]
RepoEnterprise == [owner |-> "github", repo |-> "awesome-copilot", baseUrl |-> "https://ghe.corp"]
RepoAcme       == [owner |-> "acme", repo |-> "kit", baseUrl |-> ""]


CatCollections  == "collections"
CatInstructions == "instructions"
CatPrompts      == "prompts"
CatAgents       == "agents"
CatSkills       == "skills"

\* the (source, category) pairs the listing calls of the model are made for
CacheTargets == { <<RepoPublic, CatInstructions>>, <<RepoEnterprise, CatSkills>> }

\* download_url of a directory entry of the contents API
NullUrl == "null"

FileA  == [name |-> "a.md", path |-> <<"instructions", "a.md">>, type |-> "file", download_url |-> "url:a"]
FileB  == [name |-> "b.md", path |-> <<"instructions", "b.md">>, type |-> "file", download_url |-> "url:b"]
DirS1  == [name |-> "s1", path |-> <<"skills", "s1">>, type |-> "dir", download_url |-> NullUrl]

\* the bodies a listing request can be answered with
RawListings == { <<FileA, DirS1>>, <<FileB>> }

\* the ways a request can fail: an HTTP status, or no response at all
FailureKinds == {"http404", "http500", "network"}

\* what a lookup of a listing meets: a fresh cache record (no request), or
\* the answer to its request
NotRequested == [kind |-> "cached", body |-> <<>>, failure |-> ""]
Answers ==
    { [kind |-> "body", body |-> b, failure |-> ""] : b \in RawListings } \cup
    { [kind |-> "failure", body |-> <<>>, failure |-> f] : f \in FailureKinds }

(***************************************************************************)
(* GitHubService: the listing cache.                                       *)
(***************************************************************************)
CACHE_DURATION == 60 * 60 * 1000

\* `${repo.baseUrl || 'github.com'}/${repo.owner}/${repo.repo}`
RepoKey(repo) ==
    <<IF repo.baseUrl = "" THEN GitHubDotCom ELSE repo.baseUrl, repo.owner, repo.repo>>

\* `${repoKey}|${category}`
CacheKey(repo, category) == <<RepoKey(repo), category>>

\* cacheEntry && (now - cacheEntry.timestamp) < CACHE_DURATION, with the
\* operands of the subtraction swapped
IsFreshSwapped(entry, t) == (entry.timestamp - t) < CACHE_DURATION

\* cacheEntry && (now - cacheEntry.timestamp) < CACHE_DURATION
IsFresh(entry, t) == (t - entry.timestamp) < CACHE_DURATION

\* the record the call finds under its key: a set with at most one element
Lookup(c, key) == IF key \in DOMAIN c THEN {c[key]} ELSE {}

\* a cache check that does not look at forceRefresh
ServedFromCacheIgnoringForce(c, key, forceRefresh, t) ==
    \E e \in Lookup(c, key) : IsFresh(e, t)

\* !forceRefresh && cacheEntry && fresh
ServedFromCache(c, key, forceRefresh, t) ==
    /\ ~forceRefresh
    /\ \E e \in Lookup(c, key) : IsFresh(e, t)

\* a filter that keeps the file entries in every category
KeepsFilesOnly(category, f) == f.type = "file"

\* .filter(type by category).map(f => ({ ...f, repo }))
KeepsType(category, f) ==
    IF category = CatSkills THEN f.type = "dir" ELSE f.type = "file"

WithRepo(f, repo) ==
    [name |-> f.name, path |-> f.path, type |-> f.type,
     download_url |-> f.download_url, repo |-> repo]

RECURSIVE FilterListing(_, _, _)
FilterListing(raw, category, repo) ==
    IF raw = <<>> THEN <<>>
    ELSE IF KeepsType(category, Head(raw))
         THEN <<WithRepo(Head(raw), repo)>> \o FilterListing(Tail(raw), category, repo)
         ELSE FilterListing(Tail(raw), category, repo)

\* a cache write that appends the new entries to the entries of the record
CacheSetMerging(c, key, entry) ==
    [k \in (DOMAIN c) \cup {key} |->
        IF k = key
        THEN IF key \in DOMAIN c
             THEN [entry EXCEPT !.data = c[key].data \o entry.data]
             ELSE entry
        ELSE c[k]]

\* this.cache.set(cacheKey, { data, timestamp, category, repo })
CacheSet(c, key, entry) ==
    [k \in (DOMAIN c) \cup {key} |-> IF k = key THEN entry ELSE c[k]]

\* the catch block of getFilesByRepo, writing an empty record on every failure
CacheAfterFailureWritesEmpty(c, call, failure) ==
    CacheSet(c, CacheKey(call.repo, call.category),
             [data |-> <<>>, timestamp |-> call.now,
              category |-> call.category, repo |-> call.repo])

\* the catch block of getFilesByRepo: no failure writes the cache
CacheAfterFailure(c, call, failure) == c

\* the outcome of the catch block: 404 returns [], anything else throws
OutcomeOfFailure(failure) == IF failure = "http404" THEN "absent" ELSE "error"

NewCall(repo, category, forceRefresh) ==
    [repo |-> repo, category |-> category, forceRefresh |-> forceRefresh,
     now |-> now,
     seen |-> Lookup(cache, CacheKey(repo, category)),
     after |-> {i \in 1..Len(calls) : calls[i].pc = "done"},
     pc |-> "await", requested |-> TRUE, response |-> "none",
     outcome |-> "pending", result |-> <<>>]

\* the clock advances to just before, or just after, a record of the
\* previous instant expires
TickDeltas == {CACHE_DURATION - 1, CACHE_DURATION + 1}

Tick ==
    /\ ticks < MaxTicks
    /\ \E d \in TickDeltas : now' = now + d
    /\ ticks' = ticks + 1
    /\ UNCHANGED <<cache, calls, parseVars, sourceVars, bundleVars, fs, skillVars,
                   filesVars, trackerVars, serviceVars>>

\* getFilesByRepo up to its return from the cache
GetFilesByRepoCached ==
    /\ Len(calls) < MaxCalls
    /\ \E tg \in CacheTargets, forceRefresh \in BOOLEAN :
         LET repo     == tg[1]
             category == tg[2]
             key      == CacheKey(repo, category) IN
         /\ ServedFromCache(cache, key, forceRefresh, now)
         /\ calls' = Append(calls,
                [NewCall(repo, category, forceRefresh) EXCEPT
                    !.pc = "done", !.requested = FALSE,
                    !.outcome = "cached", !.result = cache[key].data])
    /\ UNCHANGED <<now, ticks, cache, parseVars, sourceVars, bundleVars, fs, skillVars,
                   filesVars, trackerVars, serviceVars>>

\* getFilesByRepo up to its listing request (await axios.get)
GetFilesByRepoRequest ==
    /\ Len(calls) < MaxCalls
    /\ \E tg \in CacheTargets, forceRefresh \in BOOLEAN :
         LET repo     == tg[1]
             category == tg[2] IN
         /\ ~ServedFromCache(cache, CacheKey(repo, category), forceRefresh, now)
         /\ calls' = Append(calls, NewCall(repo, category, forceRefresh))
    /\ UNCHANGED <<now, ticks, cache, parseVars, sourceVars, bundleVars, fs, skillVars,
                   filesVars, trackerVars, serviceVars>>

\* the listing request of a call is answered with a body
GetFilesByRepoResponse ==
    /\ \E i \in 1..Len(calls), raw \in RawListings :
         LET call  == calls[i]
             files == FilterListing(raw, call.category, call.repo) IN
         /\ call.pc = "await"
         /\ cache' = CacheSet(cache, CacheKey(call.repo, call.category),
                        [data |-> files, timestamp |-> call.now,
                         category |-> call.category, repo |-> call.repo])
         /\ calls' = [calls EXCEPT ![i] =
                [call EXCEPT !.pc = "done", !.response = "ok",
                             !.outcome = "ok", !.result = files]]
    /\ UNCHANGED <<now, ticks, parseVars, sourceVars, bundleVars, fs, skillVars,
                   filesVars, trackerVars, serviceVars>>

\* the listing request of a call fails
GetFilesByRepoFailure ==
    /\ \E i \in 1..Len(calls), failure \in FailureKinds :
         LET call == calls[i] IN
         /\ call.pc = "await"
         /\ cache' = CacheAfterFailure(cache, call, failure)
         /\ calls' = [calls EXCEPT ![i] =
                [call EXCEPT !.pc = "done", !.response = failure,
                             !.outcome = OutcomeOfFailure(failure)]]
    /\ UNCHANGED <<now, ticks, parseVars, sourceVars, bundleVars, fs, skillVars,
                   filesVars, trackerVars, serviceVars>>

(***************************************************************************)
(* GitHubService.parseCollectionYaml: the collection manifest parser.      *)
(* A manifest document is given by its form and, for a mapping, by the     *)
(* value found under each key: missing, a string (a sequence of            *)
(* characters), a list, or a value of another type.                        *)
(***************************************************************************)
Chars == {" ", "x"}

\* all strings of at most n characters
RECURSIVE StringsUpTo(_)
StringsUpTo(n) ==
    IF n = 0 THEN { <<>> }
    ELSE StringsUpTo(n - 1) \cup
         { Append(s, c) : s \in { t \in StringsUpTo(n - 1) : Len(t) = n - 1 }, c \in Chars }

Missing      == [kind |-> "missing", chars |-> <<>>]
OtherValue   == [kind |-> "other", chars |-> <<>>]
StringOf(s)  == [kind |-> "string", chars |-> s]
ScalarValues == {Missing, OtherValue} \cup { StringOf(s) : s \in StringsUpTo(MaxStrLen) }

ItemKinds == {"instruction", "prompt", "agent", "skill"}

RefInstructionA == [path |-> <<".github", "instructions", "a.md">>, kind |-> "instruction"]
RefPromptB      == [path |-> <<".github", "prompts", "b.md">>, kind |-> "prompt"]
RefSkillS1      == [path |-> <<"skills", "s1">>, kind |-> "skill"]
RefSkillMd      == [path |-> <<"skills", "s1", "SKILL.md">>, kind |-> "skill"]
RefChatmode     == [path |-> <<".github", "chatmodes", "c.md">>, kind |-> "chatmode"]

ManifestRefs == {RefInstructionA, RefPromptB, RefSkillS1, RefChatmode}

\* item lists that name a file of a skill folder instead of the folder
SkillFileLists == { <<RefSkillMd>>, <<RefSkillMd, RefInstructionA>>, <<RefSkillS1, RefSkillMd>> }

\* all lists of at most n item references
RECURSIVE RefListsUpTo(_)
RefListsUpTo(n) ==
    IF n = 0 THEN { <<>> }
    ELSE RefListsUpTo(n - 1) \cup
         { Append(l, r) : l \in { t \in RefListsUpTo(n - 1) : Len(t) = n - 1 }, r \in ManifestRefs }

MissingList == [kind |-> "missing", list |-> <<>>]
NotAList    == [kind |-> "other", list |-> <<>>]
ListOf(l)   == [kind |-> "list", list |-> l]
ItemsValues == {MissingList, NotAList} \cup { ListOf(l) : l \in RefListsUpTo(MaxItems) }

TagsValues    == { <<>>, <<"testing", "sample">> }
NoDisplay     == [present |-> FALSE, ordering |-> "", show_badge |-> FALSE]
DisplayValues == { NoDisplay, [present |-> TRUE, ordering |-> "alpha", show_badge |-> TRUE] }

Mapping(id, name, description, items, tags, display) ==
    [form |-> "mapping", id |-> id, name |-> name, description |-> description,
     items |-> items, tags |-> tags, display |-> display]

NonMapping(form) ==
    [form |-> form, id |-> Missing, name |-> Missing, description |-> Missing,
     items |-> MissingList, tags |-> <<>>, display |-> NoDisplay]

NonMappingForms == {"empty", "unparseable", "scalar", "sequence"}

Docs ==
    { NonMapping(f) : f \in NonMappingForms } \cup
    { Mapping(id, name, description, items, tags, display) :
        id \in ScalarValues, name \in ScalarValues, description \in ScalarValues,
        items \in ItemsValues, tags \in TagsValues, display \in DisplayValues }

\* String.prototype.trim
RECURSIVE TrimLeft(_)
TrimLeft(s) == IF s # <<>> /\ Head(s) = " " THEN TrimLeft(Tail(s)) ELSE s

RECURSIVE TrimRight(_)
TrimRight(s) ==
    IF s # <<>> /\ s[Len(s)] = " " THEN TrimRight(SubSeq(s, 1, Len(s) - 1)) ELSE s

Trim(s) == TrimRight(TrimLeft(s))

IdValid(v)          == v.kind = "string" /\ v.chars # <<>>
NameValid(v)        == v.kind = "string" /\ Trim(v.chars) # <<>>
DescriptionValid(v) == v.kind = "string" /\ Trim(v.chars) # <<>>
ItemsValid(v)       == v.kind = "list"

ManifestFields == {"id", "name", "description", "items"}

ParsePrefix == "Failed to parse collection YAML"

FormatError == [status |-> "error",
                message |-> <<ParsePrefix, "Invalid collection YAML format">>]

FieldError(field) ==
    [status |-> "error",
     message |-> <<ParsePrefix, "missing or invalid", field,
                   IF field = "items" THEN "array" ELSE "field">>]

\* the metadata of a manifest that passed validation, every string trimmed
MetadataOfTrimmed(d) ==
    [id |-> Trim(d.id.chars), name |-> Trim(d.name.chars),
     description |-> Trim(d.description.chars),
     tags |-> d.tags, items |-> d.items.list, display |-> d.display]

\* the metadata of a manifest that passed validation
MetadataOf(d) ==
    [id |-> d.id.chars, name |-> d.name.chars, description |-> d.description.chars,
     tags |-> d.tags, items |-> d.items.list, display |-> d.display]

\* validation that reports every invalid field as the "id" field
ValidateManifestConflated(d) ==
    IF IdValid(d.id) /\ NameValid(d.name) /\ DescriptionValid(d.description)
       /\ ItemsValid(d.items)
    THEN [status |-> "ok", metadata |-> MetadataOf(d)]
    ELSE FieldError("id")

\* validation of the parsed mapping, in the order id, name, description, items
ValidateManifest(d) ==
    IF ~IdValid(d.id) THEN FieldError("id")
    ELSE IF ~NameValid(d.name) THEN FieldError("name")
    ELSE IF ~DescriptionValid(d.description) THEN FieldError("description")
    ELSE IF ~ItemsValid(d.items) THEN FieldError("items")
    ELSE [status |-> "ok", metadata |-> MetadataOf(d)]

\* a parser that takes every document for a mapping
ParseCollectionYamlNoFormatCheck(d) == ValidateManifest(d)

ParseCollectionYaml(d) ==
    IF d.form # "mapping" THEN FormatError ELSE ValidateManifest(d)

\* parseCollectionYaml(downloadUrl) on a manifest whose content is d
ParseManifest ==
    /\ doc.form # "none"
    /\ parsed.status = "none"
    /\ parsed' = ParseCollectionYaml(doc)
    /\ UNCHANGED <<doc, cacheVars, sourceVars, bundleVars, fs, skillVars, filesVars,
                   trackerVars, serviceVars>>

(***************************************************************************)
(* RepoStorage and the manageSources command: the source registry.         *)
(***************************************************************************)
\* DEFAULT_SOURCES
DefaultSources == <<RepoPublic>>

\* what the user can enter, once parsed into owner, repo and base URL
CandidateOwners   == {"", "github", "acme"}
CandidateRepos    == {"", "awesome-copilot", "kit"}
CandidateBaseUrls == {"", "https://ghe.corp"}

NoAdd == [outcome |-> "none"]

\* sources.some(s => s.owner === owner && s.repo === repo && same base URL)
IsDuplicateByIdentity(list, owner, repo, baseUrl) ==
    \E i \in 1..Len(list) :
        list[i].owner = owner /\ list[i].repo = repo /\ list[i].baseUrl = baseUrl

\* sources.some(s => s.owner === owner && s.repo === repo)
IsDuplicate(list, owner, repo, baseUrl) ==
    \E i \in 1..Len(list) : list[i].owner = owner /\ list[i].repo = repo

\* clearRepoCache deleting by owner and repo, whatever the base URL
ClearRepoCacheByOwnerRepo(c, repo) ==
    [k \in {x \in DOMAIN c : ~(x[1][2] = repo.owner /\ x[1][3] = repo.repo)} |-> c[k]]

\* clearRepoCache(repo): delete every key that starts with `${repoKey}|`
ClearRepoCache(c, repo) ==
    [k \in {x \in DOMAIN c : x[1] # RepoKey(repo)} |-> c[k]]

\* sources.filter(s => `${s.owner}/${s.repo}` !== toRemove.label)
RemoveByLabel(list, target) ==
    SelectSeq(list, LAMBDA s : ~(s.owner = target.owner /\ s.repo = target.repo))

\* RepoStorage.getSources: the stored list, or the defaults (which are then
\* stored) when it is empty
GetSources(stored) == IF Len(stored) > 0 THEN stored ELSE DefaultSources

\* the manageSources command starts: sources = RepoStorage.getSources(context)
OpenManageSources ==
    /\ ~dialog.open
    /\ dialog' = [open |-> TRUE, sources |-> GetSources(sources)]
    /\ sources' = GetSources(sources)
    /\ lastAdd' = NoAdd
    /\ UNCHANGED <<removed, cacheVars, parseVars, bundleVars, fs, skillVars, filesVars,
                   trackerVars, serviceVars>>

\* 'Done', or the quick pick is dismissed
CloseManageSources ==
    /\ dialog.open
    /\ dialog' = [open |-> FALSE, sources |-> <<>>]
    /\ UNCHANGED <<sources, lastAdd, removed, cacheVars, parseVars, bundleVars, fs,
                   skillVars, filesVars, trackerVars, serviceVars>>

\* 'Add Repository': format check, duplicate check, validation of the
\* repository's folders (hasFolder: at least one content folder was found),
\* then sources.push and RepoStorage.setSources
AddRepository ==
    /\ dialog.open
    /\ \E owner \in CandidateOwners, repo \in CandidateRepos,
          baseUrl \in CandidateBaseUrls, hasFolder \in BOOLEAN :
         LET candidate == [owner |-> owner, repo |-> repo, baseUrl |-> baseUrl]
             outcome ==
                 IF owner = "" \/ repo = "" THEN "invalid"
                 ELSE IF IsDuplicate(dialog.sources, owner, repo, baseUrl) THEN "duplicate"
                 ELSE IF ~hasFolder THEN "rejected"
                 ELSE "added"
             list == IF outcome = "added" THEN Append(dialog.sources, candidate)
                     ELSE dialog.sources
         IN
         /\ lastAdd' = [outcome |-> outcome, candidate |-> candidate,
                        before |-> dialog.sources]
         /\ dialog' = [dialog EXCEPT !.sources = list]
         /\ sources' = IF outcome = "added" THEN list ELSE sources
    /\ UNCHANGED <<removed, cacheVars, parseVars, bundleVars, fs, skillVars, filesVars,
                   trackerVars, serviceVars>>

\* 'Remove Repository': refused when one source is left; otherwise the cache
\* of the chosen source is cleared and the list is filtered by its label
RemoveRepository ==
    /\ dialog.open
    /\ Len(dialog.sources) # 1
    /\ \E i \in 1..Len(dialog.sources) :
         LET list == RemoveByLabel(dialog.sources, dialog.sources[i]) IN
         /\ cache' = ClearRepoCache(cache, dialog.sources[i])
         /\ dialog' = [dialog EXCEPT !.sources = list]
         /\ sources' = list
    /\ lastAdd' = NoAdd
    /\ UNCHANGED <<now, ticks, calls, removed, parseVars, bundleVars, fs, skillVars,
                   filesVars, trackerVars, serviceVars>>

\* 'Reset to Default': clearCache, then the default list is stored
ResetToDefault ==
    /\ dialog.open
    /\ cache' = <<>>
    /\ dialog' = [dialog EXCEPT !.sources = DefaultSources]
    /\ sources' = DefaultSources
    /\ lastAdd' = NoAdd
    /\ UNCHANGED <<removed, now, ticks, calls, parseVars, bundleVars, fs, skillVars,
                   filesVars, trackerVars, serviceVars>>

\* sources.filter(s => !(s.owner === repo.owner && s.repo === repo.repo))
RemoveByOwnerRepo(list, repo) ==
    SelectSeq(list, LAMBDA s : ~(s.owner = repo.owner /\ s.repo = repo.repo))

\* the repositories a tree item can stand for
TreeRepos == {RepoPublic, RepoEnterprise, RepoAcme}

\* the awesome-copilot.removeRepo command on the tree item of a repository:
\* confirmation, refusal when one source is left, clearRepoCache, filter,
\* setSources
RemoveRepoCommand ==
    /\ \E repo \in TreeRepos, confirm \in BOOLEAN :
         IF ~confirm
         THEN UNCHANGED <<cache, sources, removed>>
         ELSE IF Len(GetSources(sources)) <= 1
         THEN /\ sources' = GetSources(sources)
              /\ UNCHANGED <<cache, removed>>
         ELSE /\ cache' = ClearRepoCache(cache, repo)
              /\ sources' = RemoveByOwnerRepo(GetSources(sources), repo)
              /\ removed' = IF repo \in SeqToSet(GetSources(sources))
                             THEN {[repo |-> repo, callsAt |-> Len(calls)]}
                             ELSE removed
    /\ UNCHANGED <<now, ticks, calls, dialog, lastAdd, parseVars, bundleVars, fs,
                   skillVars, filesVars, trackerVars, serviceVars>>

\* source lists the settings (awesome-copilot.repositories) can hold: no two
\* entries have the same base URL, owner and repo
ConfiguredSources ==
    { <<RepoPublic>>, <<RepoPublic, RepoAcme>>, <<RepoPublic, RepoEnterprise>>,
      <<RepoPublic, RepoEnterprise, RepoAcme>> }

(***************************************************************************)
(* GitHubService.getFiles: the merged listing of a category over all       *)
(* sources, and the refreshRepo command.                                   *)
(***************************************************************************)
\* allFiles = allFiles.concat(files), over the sources in order
RECURSIVE Flatten(_)
Flatten(lists) ==
    IF lists = <<>> THEN <<>> ELSE Head(lists) \o Flatten(Tail(lists))

\* fileNameCounts.get(file.name)
NameCount(files, name) == Cardinality({i \in 1..Len(files) : files[i].name = name})

\* duplicateNames.has(file.name)
IsDuplicateName(files, name) == NameCount(files, name) >= 2

\* a display name that is the name alone for every file
DisplayNameOfNameOnly(files, f) == <<f.name>>

\* file.displayName = ... : the name with the repository for a duplicate
\* name, the name alone otherwise
DisplayNameOf(files, f) ==
    IF IsDuplicateName(files, f.name)
    THEN <<f.name, f.repo.owner, f.repo.repo>>
    ELSE <<f.name>>

\* the assignment file.displayName = dn on the object f
WithDisplayName(f, dn) ==
    [x \in (DOMAIN f) \cup {"displayName"} |-> IF x = "displayName" THEN dn ELSE f[x]]

\* the second pass of getFiles over a list of the objects of allFiles
SetDisplayNames(files, allFiles) ==
    [i \in 1..Len(files) |-> WithDisplayName(files[i], DisplayNameOf(allFiles, files[i]))]

\* the categories getFiles is asked for
GetFilesCategories == {CatInstructions, CatSkills}

\* error.response?.status of an axios error
StatusOf(failure) ==
    CASE failure = "http404" -> 404
      [] failure = "http500" -> 500
      [] failure = "http401" -> 401
      [] failure = "http403" -> 403
      [] OTHER               -> 0

\* request failures that handleAuthError takes for authentication errors
AuthFailureKinds == {"http401", "http403"}

AuthAnswers ==
    { [kind |-> "failure", body |-> <<>>, failure |-> f] : f \in AuthFailureKinds }

\* how handleAuthError ends for a 401 or 403: authentication is disabled in
\* the settings, the user does not choose 'Sign In' (or is not asked), no
\* session is obtained, or a session is obtained
AuthOutcomes == {"disabled", "declined", "no-session", "signed-in"}

\* a handleAuthError that returns true for every 401 or 403
HandleAuthErrorAlways(failure, outcome) == StatusOf(failure) \in {401, 403}

\* handleAuthError(requestError, isEnterprise): true when the status is 401
\* or 403 and ensureGitHubAuth has returned true
HandleAuthError(failure, outcome) ==
    /\ StatusOf(failure) \in {401, 403}
    /\ outcome = "signed-in"

\* what happens on the wire for one source: the first answer, how
\* handleAuthError ends when it has something to decide, and the answer to
\* the request sent again when handleAuthError returns true
Exchanges(answerSet) ==
    { [first |-> a, auth |-> "none", retry |-> NotRequested] :
         a \in ({NotRequested} \cup answerSet) \ AuthAnswers }
    \cup
    { [first |-> a, auth |-> o, retry |-> NotRequested] :
         a \in answerSet \cap AuthAnswers, o \in AuthOutcomes \ {"signed-in"} }
    \cup
    { [first |-> a, auth |-> "signed-in", retry |-> r] :
         a \in answerSet \cap AuthAnswers, r \in answerSet }

\* the answer the code goes on with: that of the request sent again when
\* there is one, the first answer otherwise
FinalAnswer(x) ==
    IF x.first.kind = "failure" /\ HandleAuthError(x.first.failure, x.auth)
    THEN x.retry ELSE x.first

\* a loop over the sources that ends at the first source that fails
SourcesListedUntilFailure(n, failed) == {i \in 1..n : \A j \in failed : i < j}

\* the sources the loop goes through: the catch block is inside the loop,
\* so every one of them, whichever have failed
SourcesListed(n, failed) == 1..n

\* the requests sent for a source
RequestsOf(x) ==
    IF x.first = NotRequested THEN 0
    ELSE IF x.first.kind = "failure" /\ HandleAuthError(x.first.failure, x.auth) THEN 2
    ELSE 1

\* getFiles(category, forceRefresh, context): per source the cache or a
\* listing request, sent again once after a successful sign-in (a failure
\* adds nothing and writes nothing; other than a 404 it is shown as a
\* warning), then the display names; the objects of the result are the
\* objects of the cache
GetFilesOf(answerSet) ==
    /\ gf.count < MaxGetFiles
    /\ \E category \in GetFilesCategories, forceRefresh \in BOOLEAN :
         LET srcs == GetSources(sources)
             n    == Len(srcs)
             key(i) == CacheKey(srcs[i], category)
             hit(i) == ServedFromCache(cache, key(i), forceRefresh, now)
         IN
         \E exchanges \in [1..n -> Exchanges(answerSet)] :
            LET answers  == [i \in 1..n |-> FinalAnswer(exchanges[i])]
                failed   == {i \in 1..n : ~hit(i) /\ answers[i].kind = "failure"}
                listed   == SourcesListed(n, failed)
                files(i) ==
                    IF i \notin listed THEN <<>>
                    ELSE IF hit(i) THEN cache[key(i)].data
                    ELSE IF answers[i].kind = "body"
                    THEN FilterListing(answers[i].body, category, srcs[i])
                    ELSE <<>>
                allFiles == Flatten([i \in 1..n |-> files(i)])
                written  == {i \in listed : hit(i) \/ answers[i].kind = "body"}
                entry(i) ==
                    [data |-> SetDisplayNames(files(i), allFiles),
                     timestamp |-> IF hit(i) THEN cache[key(i)].timestamp ELSE now,
                     category |-> category, repo |-> srcs[i]]
                keys     == {key(i) : i \in written}
            IN
            /\ \A i \in 1..n : hit(i) <=> (exchanges[i].first = NotRequested)
            /\ cache' = [k \in (DOMAIN cache) \cup keys |->
                            IF k \in keys
                            THEN entry(CHOOSE i \in written : key(i) = k)
                            ELSE cache[k]]
            /\ sources' = srcs
            /\ gf' = [pc |-> "done",
                      count |-> gf.count + 1,
                      category |-> category, forceRefresh |-> forceRefresh,
                      sources |-> srcs, answers |-> answers,
                      exchanges |-> exchanges,
                      requests |-> [i \in 1..n |-> RequestsOf(exchanges[i])],
                      warned |-> {i \in 1..n : /\ answers[i].kind = "failure"
                                               /\ StatusOf(answers[i].failure) # 404},
                      cacheBefore |-> cache,
                      result |-> SetDisplayNames(allFiles, allFiles)]
    /\ UNCHANGED <<now, ticks, calls, dialog, lastAdd, removed, cleared, parseVars, bundleVars,
                   fs, skillVars, trackerVars, serviceVars>>

\* getFiles when no request is answered with 401 or 403
GetFiles == GetFilesOf(Answers)

\* getFiles when a request can also be answered with 401 or 403
GetFilesWithAuth == GetFilesOf(Answers \cup AuthAnswers)

\* the awesome-copilot.refreshRepo command: clearRepoCache(repo)
RefreshRepoCommand ==
    /\ cleared.count < MaxClears
    /\ \E repo \in TreeRepos :
         /\ cleared' = [pc |-> "done", count |-> cleared.count + 1,
                        repo |-> repo, before |-> cache]
         /\ cache' = ClearRepoCache(cache, repo)
    /\ UNCHANGED <<now, ticks, calls, gf, parseVars, sourceVars, bundleVars, fs,
                   skillVars, trackerVars, serviceVars>>

(***************************************************************************)
(* downloadCopilotItem for a collection: the bundle download.              *)
(***************************************************************************)
WorkspaceRoot == <<"ws">>

\* FOLDER_PATHS[category]
FolderPath(category) == <<".github", category>>

\* path.basename
Basename(p) == IF p = <<>> THEN "" ELSE p[Len(p)]

\* the switch on collectionItem.kind; "" stands for the default branch
CategoryOfKind(kind) ==
    CASE kind = "instruction" -> CatInstructions
      [] kind = "prompt"      -> CatPrompts
      [] kind = "agent"       -> CatAgents
      [] kind = "skill"       -> CatSkills
      [] OTHER                -> ""

\* fs.writeFileSync(path, content)
FsWrite(f, path, content) ==
    [p \in (DOMAIN f) \cup {path} |-> IF p = path THEN content ELSE f[p]]

\* a directory is an entry of the file system whose content is DirMark
DirMark == "<dir>"

\* fs.existsSync(dir)
FolderExists(f, dir) == \E p \in DOMAIN f : IsPrefix(dir, p)

\* fs.mkdirSync(dir, { recursive: true })
FsMkdir(f, dir) == IF FolderExists(f, dir) THEN f ELSE FsWrite(f, dir, DirMark)

\* path.dirname
Dirname(p) == IF Len(p) <= 1 THEN <<>> ELSE SubSeq(p, 1, Len(p) - 1)

\* a predicate that compares the whole path for every kind
MatchesRefByPath(file, ref) ==
    \/ file.path = ref.path
    \/ (ref.kind = "skill" /\ file.path # ref.path /\ IsPrefix(ref.path, file.path))

\* the predicate of categoryFiles.find(...)
MatchesRef(file, ref) ==
    IF ref.kind = "skill"
    THEN \/ file.path = ref.path
         \/ (file.path # ref.path /\ IsPrefix(ref.path, file.path))
    ELSE file.name = Basename(ref.path)

\* categoryFiles.find(...): the set holding the first match, or no element
FindMatch(files, ref) ==
    LET hits == {k \in 1..Len(files) : MatchesRef(files[k], ref)} IN
    IF hits = {} THEN {}
    ELSE {files[CHOOSE k \in hits : \A h \in hits : k <= h]}

\* an error object: whether axios.isAxiosError holds for it, the failure of
\* the request when it does, and its message (a sequence of its parts)
AxiosError(failure) ==
    [isAxiosError |-> TRUE, failure |-> failure, message |-> <<"AxiosError", failure>>]

\* new Error(message)
PlainError(message) ==
    [isAxiosError |-> FALSE, failure |-> "", message |-> message]

\* new Error(`${prefix}: ${error}`), the rethrow of getFileContent and of
\* getFilesByRepo
WrappedError(prefix, error) == PlainError(<<prefix>> \o error.message)

\* what getFileContent throws for a failed request
FetchError(failure) == WrappedError("Failed to fetch file content", AxiosError(failure))

\* what getFilesByRepo throws for a failed request other than a 404
ListingError(failure) == WrappedError("Failed to load", AxiosError(failure))

NotFoundReason     == <<"File not found in repository">>
NetworkErrorReason == <<"Network error while downloading file">>
HttpErrorReason(status) == <<"HTTP error", status>>

\* the catch block of the loop over the items: failureReason
FailureReason(error) ==
    IF error.isAxiosError
    THEN IF StatusOf(error.failure) = 404 THEN NotFoundReason
         ELSE IF StatusOf(error.failure) = 0 THEN NetworkErrorReason
         ELSE HttpErrorReason(StatusOf(error.failure))
    ELSE error.message

\* the collection item being downloaded: c1.collection.yml of the default source
CollectionName == "c1.collection.yml"
CollectionRepo == RepoPublic

\* the manifests a collection file can hold in the model
BundleDocs ==
    { NonMapping("empty"),
      Mapping(Missing, StringOf(<<"x">>), StringOf(<<"x">>), ListOf(<<RefInstructionA>>),
              <<>>, NoDisplay),
      Mapping(StringOf(<<"x">>), StringOf(<<"x">>), StringOf(<<"x">>), NotAList,
              <<>>, NoDisplay) }
    \cup
    { Mapping(StringOf(<<"x">>), StringOf(<<"x">>), StringOf(<<"x">>), ListOf(l),
              <<>>, NoDisplay) : l \in RefListsUpTo(MaxItems) \cup SkillFileLists }

Idle == [pc |-> "idle"]

\* a failed parse throws past the whole download; a bug that carries on would not
StepAfterParseIgnoringError(result) == "confirm"

\* where downloadCopilotItem goes after parseCollectionYaml: on, or to its catch
StepAfterParse(result) == IF result.status = "ok" THEN "confirm" ELSE "failed"

\* a list that takes its new element at the front
PushFront(list, x) == <<x>> \o list

\* downloadedFiles.push(...), failedFiles.push(...)
Push(list, x) == Append(list, x)

\* a loop without the per-item try/catch: the first failure ends it
IndexAfterFailureAborting(i, n) == n + 1

\* the loop index after the catch block of an item
IndexAfterFailure(i, n) == i + 1

\* downloadCopilotItem(item) for a collection, up to the confirmation dialog:
\* the workspace check and parseCollectionYaml(item.file.download_url)
StartCollectionDownload ==
    /\ dl.pc = "idle"
    /\ \E d \in BundleDocs, hasWorkspace \in BOOLEAN :
         LET result == ParseCollectionYaml(d)
             step   == IF hasWorkspace THEN StepAfterParse(result) ELSE "failed" IN
         /\ doc' = d
         /\ parsed' = IF hasWorkspace THEN result ELSE parsed
         /\ dl' = [pc |-> IF step = "failed" THEN "done" ELSE step,
                   parseAttempted |-> hasWorkspace,
                   parseFailed |-> hasWorkspace /\ result.status # "ok",
                   items |-> IF result.status = "ok" THEN result.metadata.items ELSE <<>>,
                   i |-> 1,
                   downloaded |-> <<>>, failed |-> <<>>, attempts |-> <<>>,
                   listingRequests |-> 0, contentFetches |-> 0,
                   errorShown |-> (step = "failed"), summarized |-> FALSE,
                   fsBefore |-> fs, cacheBefore |-> cache]
    /\ UNCHANGED <<cacheVars, sourceVars, fs, skillVars, filesVars, trackerVars, serviceVars>>

\* the confirmation dialog: 'Download', or dismissed
ConfirmCollectionDownload ==
    /\ dl.pc = "confirm"
    /\ \E proceed \in BOOLEAN :
         dl' = [dl EXCEPT !.pc = IF proceed THEN "write" ELSE "done"]
    /\ UNCHANGED <<cacheVars, parseVars, sourceVars, fs, skillVars, filesVars,
                   trackerVars, serviceVars>>

\* the collection file is written (a failure goes to the outer catch), and
\* the sibling markdown file when it can be fetched and written
WriteCollectionFile ==
    /\ dl.pc = "write"
    /\ \E writeOk \in BOOLEAN, sibling \in BOOLEAN :
         LET dir  == WorkspaceRoot \o FolderPath(CatCollections)
             fs0  == FsMkdir(fs, dir)
             fs1  == FsWrite(fs0, Append(dir, CollectionName), "yaml")
             fs2  == IF sibling THEN FsWrite(fs1, Append(dir, "c1.md"), "md") ELSE fs1 IN
         IF writeOk
         THEN /\ fs' = fs2
              /\ dl' = [dl EXCEPT !.pc = IF Len(dl.items) = 0 THEN "summary" ELSE "items"]
         ELSE /\ fs' = fs0
              /\ dl' = [dl EXCEPT !.pc = "done", !.errorShown = TRUE]
    /\ UNCHANGED <<cacheVars, parseVars, sourceVars, skillVars, filesVars, trackerVars,
                   serviceVars>>

\* one iteration of the loop over metadata.items
DownloadCollectionItem ==
    /\ dl.pc = "items"
    /\ LET i        == dl.i
           n        == Len(dl.items)
           ref      == dl.items[i]
           category == CategoryOfKind(ref.kind)
           key      == CacheKey(CollectionRepo, category)
           fileName == Basename(ref.path)
           pcAt(j)  == IF j > n THEN "summary" ELSE "items"
       IN
       IF category = ""
       THEN \* default: continue
            /\ dl' = [dl EXCEPT !.i = i + 1, !.pc = pcAt(i + 1),
                         !.attempts = Append(@, [pos |-> i, outcome |-> "skipped",
                             listing |-> "none", files |-> <<>>, matched |-> FALSE,
                             fetchFailure |-> "none",
                             fetched |-> FALSE, written |-> FALSE])]
            /\ UNCHANGED <<cache, fs>>
       ELSE \E response \in {NotRequested} \cup Answers,
               fetch \in {"ok"} \cup FailureKinds, writeOk \in BOOLEAN :
            LET hit      == ServedFromCache(cache, key, FALSE, now)
                isBody   == response.kind = "body"
                callRec  == [repo |-> CollectionRepo, category |-> category, now |-> now]
                files    == IF hit THEN cache[key].data
                            ELSE IF isBody
                            THEN FilterListing(response.body, category, CollectionRepo)
                            ELSE <<>>
                listing  == IF hit THEN "cached"
                            ELSE IF isBody THEN "ok"
                            ELSE OutcomeOfFailure(response.failure)
                match    == IF listing = "error" THEN {} ELSE FindMatch(files, ref)
                matched  == match # {}
                url      == IF matched THEN (CHOOSE m \in match : TRUE).download_url ELSE NullUrl
                fetched  == matched /\ url # NullUrl /\ fetch = "ok"
                fetchFailure == IF ~matched \/ fetched THEN "none"
                                ELSE IF url = NullUrl THEN "invalid-url"
                                ELSE fetch
                written  == fetched /\ writeOk
                target   == (WorkspaceRoot \o FolderPath(category)) \o <<fileName>>
                attempt  == [pos |-> i, outcome |-> IF written THEN "downloaded" ELSE "failed",
                             listing |-> listing, files |-> files, matched |-> matched,
                             fetchFailure |-> fetchFailure,
                             fetched |-> fetched, written |-> written]
                error    == IF listing = "error" THEN ListingError(response.failure)
                            ELSE IF ~matched
                            THEN PlainError(<<"not found in category", fileName, category>>)
                            ELSE IF ~fetched THEN FetchError(fetchFailure)
                            ELSE PlainError(<<"write failed">>)
                reason   == FailureReason(error)
                next     == IF written THEN i + 1 ELSE IndexAfterFailure(i, n)
            IN
            /\ hit <=> (response = NotRequested)
            \* each impossible combination of inputs is taken once only
            /\ (listing = "error" \/ ~matched \/ url = NullUrl) => fetch = "ok"
            /\ ~fetched => writeOk
            /\ cache' = IF hit THEN cache
                        ELSE IF isBody
                        THEN CacheSet(cache, key,
                                 [data |-> files, timestamp |-> now,
                                  category |-> category, repo |-> CollectionRepo])
                        ELSE CacheAfterFailure(cache, callRec, response.failure)
            /\ fs' = IF written THEN FsWrite(FsMkdir(fs, Dirname(target)), target, url)
                      ELSE IF matched THEN FsMkdir(fs, Dirname(target))
                      ELSE fs
            /\ dl' = [dl EXCEPT
                         !.i = next, !.pc = pcAt(next),
                         !.attempts = Append(@, attempt),
                         !.listingRequests = IF hit THEN @ ELSE @ + 1,
                         !.contentFetches = IF matched THEN @ + 1 ELSE @,
                         !.downloaded = IF written
                                        THEN Push(@, [pos |-> i, kind |-> ref.kind,
                                                      name |-> fileName])
                                        ELSE @,
                         !.failed = IF written THEN @
                                    ELSE Push(@, [pos |-> i, kind |-> ref.kind,
                                                  path |-> ref.path, reason |-> reason])]
    /\ UNCHANGED <<now, ticks, calls, parseVars, sourceVars, skillVars, filesVars,
                   trackerVars, serviceVars>>

\* the summary message is shown and the command returns
ShowCollectionSummary ==
    /\ dl.pc = "summary"
    /\ dl' = [dl EXCEPT !.pc = "done", !.summarized = TRUE]
    /\ UNCHANGED <<cacheVars, parseVars, sourceVars, fs, skillVars, filesVars,
                   trackerVars, serviceVars>>

(***************************************************************************)
(* DownloadTracker: the download records.                                  *)
(***************************************************************************)
\* a sha is a string of hex digits, modelled as the sequence <<algorithm,
\* hashed thing>>; the absent sha (undefined or '') is the empty sequence
NoSha == <<>>

\* the blob sha of a listing entry (40 hex digits)
GitSha(blob) == <<"sha1", blob>>

\* an absent (or empty) content
NoContent == ""

\* item.id of the tree: `${category}-${file.name}-${repo.owner}-${repo.repo}`
ItemId(category, name, repo) == <<category, name, repo.owner, repo.repo>>

\* (item.file as any).sha, and item.file.size
FileSha(f)  == IF "sha" \in DOMAIN f THEN f.sha ELSE NoSha
FileSize(f) == IF "size" \in DOMAIN f THEN f.size ELSE 0

\* crypto.createHash('sha256').update(content).digest('hex') (64 hex digits)
ContentHash(content) == <<"sha256", content>>

\* recordDownload(item, content): downloads[item.id] = metadata, then the
\* update of the global state; when the update fails the error is logged
\* and nothing is recorded
RecordDownload(l, id, f, content, t, stored) ==
    IF ~stored THEN l
    ELSE [k \in (DOMAIN l) \cup {id} |->
             IF k = id
             THEN [itemId |-> id,
                   sha |-> IF content # NoContent THEN ContentHash(content) ELSE FileSha(f),
                   size |-> FileSize(f),
                   downloadTimestamp |-> t,
                   downloadUrl |-> f.download_url]
             ELSE l[k]]

\* hasUpdate with the sha compared whenever the live entry has one
HasUpdateLiveShaOnly(l, id, f) ==
    IF id \notin DOMAIN l THEN FALSE
    ELSE IF FileSha(f) # NoSha /\ FileSha(f) # l[id].sha THEN TRUE
    ELSE FileSize(f) # l[id].size

\* hasUpdate(item)
HasUpdate(l, id, f) ==
    IF id \notin DOMAIN l THEN FALSE
    ELSE IF FileSha(f) # NoSha /\ l[id].sha # NoSha /\ FileSha(f) # l[id].sha THEN TRUE
    ELSE FileSize(f) # l[id].size

(***************************************************************************)
(* downloadCopilotItem for a skill folder.                                 *)
(***************************************************************************)
\* path.join / path.normalize on an absolute path: "." and empty segments
\* are dropped, ".." removes the segment before it (none at the root)
RECURSIVE Normalize(_, _)
Normalize(segs, acc) ==
    IF segs = <<>> THEN acc
    ELSE IF Head(segs) \in {".", ""} THEN Normalize(Tail(segs), acc)
    ELSE IF Head(segs) = ".."
         THEN Normalize(Tail(segs),
                        IF acc = <<>> THEN acc ELSE SubSeq(acc, 1, Len(acc) - 1))
    ELSE Normalize(Tail(segs), Append(acc, Head(segs)))

PathJoin(base, rel) == Normalize(base \o rel, <<>>)

\* the skill item being downloaded: the folder skills/s1 of the default source
SkillItem == DirS1
SkillItemId == ItemId(CatSkills, SkillItem.name, CollectionRepo)

SkillFolderNames == {"s1", "mine"}

\* entries a recursive listing of the skill folder can hold
SkillMd  == [name |-> "SKILL.md", path |-> <<"skills", "s1", "SKILL.md">>,
             type |-> "file", download_url |-> "url:skill"]
SkillSub == [name |-> "sub", path |-> <<"skills", "s1", "sub">>,
             type |-> "dir", download_url |-> NullUrl]
SkillRef == [name |-> "x.md", path |-> <<"skills", "s1", "sub", "x.md">>,
             type |-> "file", download_url |-> "url:x"]
SkillUp  == [name |-> "passwd", path |-> <<"skills", "s1", "..", "..", "etc", "passwd">>,
             type |-> "file", download_url |-> "url:passwd"]
SkillOut == [name |-> "evil.md", path |-> <<"..", "evil.md">>,
             type |-> "file", download_url |-> "url:evil"]

SkillEntries == {SkillMd, SkillSub, SkillRef, SkillUp, SkillOut}

\* all recursive listings of at most n entries
RECURSIVE ContentsUpTo(_)
ContentsUpTo(n) ==
    IF n = 0 THEN { <<>> }
    ELSE ContentsUpTo(n - 1) \cup
         { Append(l, e) : l \in { t \in ContentsUpTo(n - 1) : Len(t) = n - 1 },
                          e \in SkillEntries }

\* a relative path that is the whole path of the entry
RelativePathWhole(filePath, skillPath) == filePath

\* fileItem.path.startsWith(skillFolderPath) ? fileItem.path.substring(...) : fileItem.path
RelativePath(filePath, skillPath) ==
    IF IsPrefix(skillPath, filePath) /\ Len(filePath) > Len(skillPath)
    THEN SubSeq(filePath, Len(skillPath) + 1, Len(filePath))
    ELSE filePath

\* workspaces a skill download can start in: empty, or holding the folder
\* .github/skills/s1 of an earlier download
SkillWorkspaces ==
    { <<>>,
      FsWrite(<<>>, (WorkspaceRoot \o FolderPath(CatSkills)) \o <<"s1", "old.md">>, "old") }

\* fs.rmSync(dir, { recursive: true, force: true })
FsRemoveFolder(f, dir) == [p \in {q \in DOMAIN f : ~IsPrefix(dir, q)} |-> f[p]]

\* the skill download up to its loop: the folder name, the overwrite
\* question, rmSync, mkdirSync and getDirectoryContents
StartSkillDownload ==
    /\ sk.pc = "idle"
    /\ \E folderName \in SkillFolderNames \cup {""}, overwrite \in BOOLEAN,
          listed \in BOOLEAN, contents \in ContentsUpTo(MaxContents),
          stored \in BOOLEAN :
         LET target == (WorkspaceRoot \o FolderPath(CatSkills)) \o <<folderName>>
             exists == FolderExists(fs, target)
             base   == [pc |-> "done", target |-> target, contents |-> <<>>, k |-> 1,
                        written |-> {}, errorShown |-> FALSE, fsBefore |-> fs]
         IN
         \* each combination of inputs that is not looked at is taken once only
         /\ (folderName = "" \/ ~exists) => overwrite
         /\ (folderName = "" \/ (exists /\ ~overwrite)) => listed
         /\ ~listed => contents = <<>>
         /\ (folderName = "" \/ (exists /\ ~overwrite) \/ ~listed \/ contents # <<>>) => stored
         /\ IF folderName = "" \/ (exists /\ ~overwrite)
            THEN \* cancelled
                 /\ sk' = base
                 /\ fs' = fs
                 /\ ledger' = ledger
            ELSE /\ fs' = FsMkdir(IF exists THEN FsRemoveFolder(fs, target) ELSE fs, target)
                 /\ sk' = IF listed
                          THEN [base EXCEPT !.pc = IF contents = <<>> THEN "done" ELSE "loop",
                                            !.contents = contents]
                          ELSE [base EXCEPT !.errorShown = TRUE]
                 \* an empty listing: the loop is over, recordDownload(item)
                 /\ ledger' = IF listed /\ contents = <<>>
                              THEN RecordDownload(ledger, SkillItemId, SkillItem, NoContent,
                                                  now, stored)
                              ELSE ledger
    /\ UNCHANGED <<cacheVars, parseVars, sourceVars, bundleVars, filesVars, upd, serviceVars>>

\* one iteration of the loop over the recursive listing: a file is fetched
\* and written under the target folder; a failure goes to the outer catch
DownloadSkillFile ==
    /\ sk.pc = "loop"
    /\ \E fetchOk \in BOOLEAN, writeOk \in BOOLEAN, stored \in BOOLEAN :
         LET fileItem == sk.contents[sk.k]
             relative == RelativePath(fileItem.path, SkillItem.path)
             target   == PathJoin(sk.target, relative)
             pcNext   == IF sk.k + 1 > Len(sk.contents) THEN "done" ELSE "loop"
             failed   == fileItem.type = "file" /\ ~(fetchOk /\ writeOk)
         IN
         /\ (fileItem.type # "file") => (fetchOk /\ writeOk)
         /\ ~fetchOk => writeOk
         /\ (failed \/ pcNext = "loop") => stored
         /\ IF fileItem.type # "file"
            THEN /\ sk' = [sk EXCEPT !.k = @ + 1, !.pc = pcNext]
                 /\ fs' = fs
            ELSE IF fetchOk /\ writeOk
            THEN /\ fs' = FsWrite(FsMkdir(fs, Dirname(target)), target, fileItem.download_url)
                 /\ sk' = [sk EXCEPT !.k = @ + 1, !.pc = pcNext,
                                     !.written = @ \cup {target}]
            ELSE /\ fs' = FsMkdir(fs, Dirname(target))
                 /\ sk' = [sk EXCEPT !.pc = "done", !.errorShown = TRUE]
         \* after the last entry: recordDownload(item)
         /\ ledger' = IF ~failed /\ pcNext = "done"
                      THEN RecordDownload(ledger, SkillItemId, SkillItem, NoContent, now, stored)
                      ELSE ledger
    /\ UNCHANGED <<cacheVars, parseVars, sourceVars, bundleVars, filesVars, upd, serviceVars>>

(***************************************************************************)
(* downloadCopilotItem for a single file, and the update check.            *)
(***************************************************************************)
\* what a listing can say about the sha and the size of a file
LiveShas  == {NoSha, GitSha("g1"), GitSha("g2")}
LiveSizes == {10, 20}

\* the file of the instructions item a.md, as a listing describes it
LiveFile(sha, size) ==
    [name |-> FileA.name, path |-> FileA.path, type |-> FileA.type,
     download_url |-> FileA.download_url, sha |-> sha, size |-> size]

RegularItemId == ItemId(CatInstructions, FileA.name, CollectionRepo)

\* what getFileContent can return
Contents == {NoContent, "text"}

\* what the user can answer to the file name prompt ("" cancels)
FileNames == {"", "a.md"}

\* downloadCopilotItem for a file of a category other than collections and
\* skills: file name, overwrite question, mkdir, fetch, write, recordDownload
DownloadRegularFile ==
    /\ \E sha \in LiveShas, size \in LiveSizes, filename \in FileNames,
          overwrite \in BOOLEAN, fetchOk \in BOOLEAN, content \in Contents,
          writeOk \in BOOLEAN, stored \in BOOLEAN :
         LET f      == LiveFile(sha, size)
             dir    == WorkspaceRoot \o FolderPath(CatInstructions)
             target == Append(dir, filename)
             exists == target \in DOMAIN fs
             asked  == filename # "" /\ (exists => overwrite)
         IN
         \* each combination of inputs that is not looked at is taken once only
         /\ (filename = "" \/ ~exists) => overwrite
         /\ ~asked => (fetchOk /\ content = NoContent /\ writeOk /\ stored)
         /\ ~fetchOk => (content = NoContent /\ writeOk)
         /\ ~(fetchOk /\ writeOk) => stored
         /\ fs' = IF ~asked THEN fs
                  ELSE IF fetchOk /\ writeOk
                  THEN FsWrite(FsMkdir(fs, dir), target, content)
                  ELSE FsMkdir(fs, dir)
         /\ ledger' = IF asked /\ fetchOk /\ writeOk
                      THEN RecordDownload(ledger, RegularItemId, f, content, now, stored)
                      ELSE ledger
    /\ UNCHANGED <<cacheVars, parseVars, sourceVars, bundleVars, skillVars, filesVars,
                   upd, serviceVars>>

\* findItemsWithUpdates: hasUpdate(item) for an item of the tree
CheckForUpdates ==
    /\ \E sha \in LiveShas, size \in LiveSizes :
         LET f == LiveFile(sha, size) IN
         upd' = [pc |-> "done", id |-> RegularItemId, file |-> f,
                 recorded |-> RegularItemId \in DOMAIN ledger, downloads |-> ledger,
                 result |-> HasUpdate(ledger, RegularItemId, f)]
    /\ UNCHANGED <<cacheVars, parseVars, sourceVars, bundleVars, fs, skillVars,
                   filesVars, ledger, serviceVars>>

(***************************************************************************)
(* GitHubService.getDirectoryContents: the recursive listing.              *)
(***************************************************************************)
SkillRoot == SkillItem.path

\* a directory entry whose path is the path of the skill folder itself
SelfDir == [name |-> "s1", path |-> SkillRoot, type |-> "dir", download_url |-> NullUrl]

\* what the contents API answers for each directory path: an empty folder,
\* a folder with one file, folders with a sub-folder (listed, or gone when
\* it is asked for), folders that list themselves, and two folders that
\* list each other; a path that is not listed is answered 404
RemoteTrees ==
    { (SkillRoot :> <<>>),
      (SkillRoot :> <<SkillMd>>),
      (SkillRoot :> <<SkillMd, SkillSub>>) @@ (SkillSub.path :> <<SkillRef>>),
      (SkillRoot :> <<SkillSub, SkillMd>>) @@ (SkillSub.path :> <<SkillRef>>),
      (SkillRoot :> <<SkillSub, SkillMd>>),
      (SkillRoot :> <<SkillMd, SelfDir>>),
      (SkillRoot :> <<SelfDir, SkillMd>>),
      (SkillRoot :> <<SkillSub>>) @@ (SkillSub.path :> <<SkillRef, SelfDir>>) }

\* getDirectoryContents(repo, item.file.path) is called for a remote tree
StartDirectoryContents ==
    /\ dc.pc = "idle"
    /\ \E tree \in RemoteTrees :
         dc' = [pc |-> "request", tree |-> tree, path |-> SkillRoot,
                stack |-> <<>>, contents |-> <<>>, requests |-> 0]
    /\ UNCHANGED <<cacheVars, parseVars, sourceVars, bundleVars, fs, sk, filesVars,
                   trackerVars, tls, uiVars>>

\* axios.get(apiUrl) of the invocation for dc.path: the answer opens the
\* loop over its items; a failure is rethrown through every caller
RequestDirectory ==
    /\ dc.pc = "request"
    /\ dc.requests < MaxListingRequests
    /\ \E answered \in BOOLEAN :
         \* a path the tree does not list is not found
         /\ (dc.path \notin DOMAIN dc.tree) => ~answered
         /\ dc' = IF answered
                  THEN [dc EXCEPT !.pc = "walk", !.requests = @ + 1,
                                  !.stack = Append(@, [items |-> dc.tree[dc.path], k |-> 1])]
                  ELSE [dc EXCEPT !.pc = "error", !.requests = @ + 1, !.stack = <<>>]
    /\ UNCHANGED <<cacheVars, parseVars, sourceVars, bundleVars, fs, sk, filesVars,
                   trackerVars, tls, uiVars>>

\* one step of `for (const item of items)` in the innermost invocation: the
\* item is pushed to contents and a directory is listed recursively; at the
\* end of the items the invocation returns to its caller
WalkEntry ==
    /\ dc.pc = "walk"
    /\ LET top  == dc.stack[Len(dc.stack)]
           rest == SubSeq(dc.stack, 1, Len(dc.stack) - 1)
       IN
       IF top.k > Len(top.items)
       THEN dc' = [dc EXCEPT !.stack = rest,
                             !.pc = IF rest = <<>> THEN "done" ELSE "walk"]
       ELSE LET item == top.items[top.k] IN
            dc' = [dc EXCEPT !.contents = Append(@, WithRepo(item, CollectionRepo)),
                             !.stack = Append(rest, [top EXCEPT !.k = @ + 1]),
                             !.path = IF item.type = "dir" THEN item.path ELSE @,
                             !.pc = IF item.type = "dir" THEN "request" ELSE "walk"]
    /\ UNCHANGED <<cacheVars, parseVars, sourceVars, bundleVars, fs, sk, filesVars,
                   trackerVars, tls, uiVars>>

(***************************************************************************)
(* The temporary override of NODE_TLS_REJECT_UNAUTHORIZED around a request *)
(* to an enterprise host with allowInsecureEnterpriseCerts enabled.        *)
(***************************************************************************)
\* the values of process.env.NODE_TLS_REJECT_UNAUTHORIZED (Unset: undefined)
Unset == "unset"
EnvValues == {Unset, "1"}

\* the places that send a request: getFiles, getFilesByRepo, getFileContent,
\* getDirectoryContents and the folder check of the add-repository command
RequestSites == {"getFiles", "getFilesByRepo", "getFileContent",
                 "getDirectoryContents", "checkFolder"}

NoOverride == [env |-> Unset, initial |-> Unset, inflight |-> {}, started |-> 0]

\* isEnterprise = !!repo.baseUrl
IsEnterprise(repo) == repo.baseUrl # ""

\* a call reaches its request: with an enterprise host and
\* allowInsecureEnterpriseCerts it reads the setting into
\* originalRejectUnauthorized and sets it to '0'; then it sends the request
\* (await axios.get)
BeginRequest ==
    /\ tls.started < MaxOverrides
    /\ \E site \in RequestSites, repo \in {RepoPublic, RepoEnterprise},
          allowInsecureEnterpriseCerts \in BOOLEAN :
         LET override == IsEnterprise(repo) /\ allowInsecureEnterpriseCerts
             request  == [id |-> tls.started + 1, site |-> site, override |-> override,
                          original |-> IF override THEN tls.env ELSE Unset]
         IN tls' = [tls EXCEPT !.env = IF override THEN "0" ELSE @,
                               !.started = @ + 1,
                               !.inflight = @ \cup {request}]
    /\ UNCHANGED <<cacheVars, parseVars, sourceVars, bundleVars, fs, skillVars, filesVars,
                   trackerVars, dc, uiVars>>

\* the request of one call settles (answer or error): the finally block of
\* an overriding call deletes the setting or sets it back to what that call
\* had read
EndRequest ==
    /\ \E r \in tls.inflight :
         tls' = [tls EXCEPT !.env = IF r.override THEN r.original ELSE @,
                            !.inflight = @ \ {r}]
    /\ UNCHANGED <<cacheVars, parseVars, sourceVars, bundleVars, fs, skillVars, filesVars,
                   trackerVars, dc, uiVars>>

(***************************************************************************)
(* AwesomeCopilotProvider.loadAllReposAndCategories: one (source, category) *)
(* of the tree is loaded. Messages are strings here, as the loader looks    *)
(* for a substring in them.                                                 *)
(***************************************************************************)
\* a source whose owner name holds the digits 404
Repo404 == [owner |-> "team404", repo |-> "kit", baseUrl |-> ""]

LoaderRepos      == {RepoPublic, Repo404}
LoaderCategories == {CatInstructions, CatSkills}

\* s.includes(sub)
Includes(s, sub) ==
    \E i \in 1..(Len(s) - Len(sub) + 1) : SubSeq(s, i, i + Len(sub) - 1) = sub

\* the message of the axios error of a failed request
AxiosMessage(failure) ==
    CASE failure = "http404" -> "Request failed with status code 404"
      [] failure = "http500" -> "Request failed with status code 500"
      [] OTHER               -> "Network Error"

\* the message of the error getFilesByRepo throws:
\* `Failed to load ${category} from ${repo.owner}/${repo.repo}: ${error}`
ListingErrorMessage(repo, category, failure) ==
    "Failed to load " \o category \o " from " \o repo.owner \o "/" \o repo.repo
        \o ": AxiosError: " \o AxiosMessage(failure)

\* statusCode of the catch block of the loader, for the error getFilesByRepo
\* throws (a plain Error: it has no response):
\* error?.response?.status || (error?.message?.includes('404') ? 404 : undefined)
LoaderStatusCode(message) == IF Includes(message, "404") THEN 404 ELSE 0

\* `${repo.owner}/${repo.repo}`
TreeRepoKey(repo) == repo.owner \o "/" \o repo.repo

\* repoData.set(category, items)
RepoDataSet(items, repo, category, list) ==
    [k \in (DOMAIN items) \cup {<<TreeRepoKey(repo), category>>} |->
        IF k = <<TreeRepoKey(repo), category>> THEN list ELSE items[k]]

NoLoad == [response |-> "none", thrown |-> FALSE, recorded |-> FALSE, reported |-> FALSE]

\* one pass of the loop body: getFilesByRepo, then repoData.set with the
\* items, or the catch block
LoadCategory ==
    /\ \E repo \in LoaderRepos, category \in LoaderCategories,
          response \in {"ok"} \cup FailureKinds, raw \in RawListings :
         LET items   == IF provider.pc = "idle" THEN <<>> ELSE provider.repoItems
             thrown  == response # "ok" /\ OutcomeOfFailure(response) = "error"
             files   == IF response = "ok" THEN FilterListing(raw, category, repo)
                        ELSE <<>>
             message == ListingErrorMessage(repo, category, response)
             is404   == LoaderStatusCode(message) = 404
         IN
         \* a body that is not looked at is taken once only
         /\ response # "ok" => raw = CHOOSE r \in RawListings : TRUE
         /\ provider' =
              [pc |-> "loaded",
               repoItems |-> IF ~thrown THEN RepoDataSet(items, repo, category, files)
                             ELSE IF is404 THEN RepoDataSet(items, repo, category, <<>>)
                             ELSE items,
               last |-> [NoLoad EXCEPT !.response = response, !.thrown = thrown,
                                       !.recorded = ~thrown \/ is404,
                                       !.reported = thrown /\ ~is404],
               repo |-> repo, category |-> category]
    /\ UNCHANGED <<cacheVars, parseVars, sourceVars, bundleVars, fs, skillVars, filesVars,
                   trackerVars, dc, tls, bar, store>>

(***************************************************************************)
(* StatusBarManager: the status bar item and its hide timer. Time is in    *)
(* seconds.                                                                *)
(***************************************************************************)
\* timeoutId is undefined
NoTimer == -1

StatusKinds == {"status", "success", "info", "warning", "loading"}

\* the duration each show method hands to showStatus
DurationOf(kind) ==
    CASE kind = "success" -> 3
      [] kind = "info"    -> 4
      [] kind = "status"  -> 5
      [] kind = "warning" -> 6
      [] kind = "loading" -> 0

\* showStatus(message, duration, icon), reached through showSuccess,
\* showInfo, showWarning or showLoading: clearTimeout, text, show(), and
\* setTimeout(() => this.hide(), duration)
ShowStatus ==
    /\ \E kind \in StatusKinds :
         bar' = [bar EXCEPT !.visible = TRUE, !.kind = kind,
                            !.timer = bar.time + DurationOf(kind),
                            !.hiddenBy = "none"]
    /\ UNCHANGED <<cacheVars, parseVars, sourceVars, bundleVars, fs, skillVars, filesVars,
                   trackerVars, dc, tls, provider, store>>

\* hide() called by the extension
HideStatus ==
    /\ bar.visible
    /\ bar' = [bar EXCEPT !.visible = FALSE, !.timer = NoTimer, !.hiddenBy = "hide"]
    /\ UNCHANGED <<cacheVars, parseVars, sourceVars, bundleVars, fs, skillVars, filesVars,
                   trackerVars, dc, tls, provider, store>>

\* the callback of setTimeout runs, not before its delay has passed: hide()
StatusTimerFires ==
    /\ bar.timer # NoTimer
    /\ bar.time >= bar.timer
    /\ bar' = [bar EXCEPT !.visible = FALSE, !.timer = NoTimer, !.hiddenBy = "timer"]
    /\ UNCHANGED <<cacheVars, parseVars, sourceVars, bundleVars, fs, skillVars, filesVars,
                   trackerVars, dc, tls, provider, store>>

\* a second passes
StatusTick ==
    /\ bar.time < MaxStatusTime
    /\ bar' = [bar EXCEPT !.time = @ + 1]
    /\ UNCHANGED <<cacheVars, parseVars, sourceVars, bundleVars, fs, skillVars, filesVars,
                   trackerVars, dc, tls, provider, store>>

(***************************************************************************)
(* RepoStorage on its two stores: the setting awesome-copilot.repositories *)
(* and the key awesomeCopilot.sources of the global state.                 *)
(***************************************************************************)
\* what a store can hold: nothing, or a list of sources
StoredLists == {<<>>} \cup ConfiguredSources

\* syncToConfig(sources): config.update, whose failure is logged and dropped
SyncToConfig(config, list, writeOk) == IF writeOk THEN list ELSE config

\* RepoStorage.setSources(context, sources): the global state, then the
\* settings
SetSources(st, list, writeOk) ==
    [st EXCEPT !.global = list, !.config = SyncToConfig(@, list, writeOk)]

\* what RepoStorage.getSources(context) returns: the settings when they
\* hold a list, else the global state when it holds one, else the defaults
GetSourcesResult(st) ==
    IF Len(st.config) > 0 THEN st.config
    ELSE IF Len(st.global) > 0 THEN st.global
    ELSE DefaultSources

\* the stores after RepoStorage.getSources(context): the list returned is
\* copied to the other store
GetSourcesSync(st, writeOk) ==
    IF Len(st.config) > 0 THEN [st EXCEPT !.global = st.config]
    ELSE IF Len(st.global) > 0
    THEN [st EXCEPT !.config = SyncToConfig(@, st.global, writeOk)]
    ELSE [st EXCEPT !.config = SyncToConfig(@, DefaultSources, writeOk),
                    !.global = DefaultSources]

\* await RepoStorage.setSources(context, S) for a non-empty list S
SetSourcesCall ==
    /\ \E list \in ConfiguredSources, writeOk \in BOOLEAN :
         store' = [SetSources(store, list, writeOk) EXCEPT
                      !.pc = "set", !.set = list, !.written = writeOk,
                      !.before = <<store.config, store.global>>, !.result = <<>>]
    /\ UNCHANGED <<cacheVars, parseVars, sourceVars, bundleVars, fs, skillVars, filesVars,
                   trackerVars, dc, tls, provider, bar>>

\* RepoStorage.getSources(context)
GetSourcesCall ==
    /\ \E writeOk \in BOOLEAN :
         /\ Len(store.config) > 0 => writeOk
         /\ store' = [GetSourcesSync(store, writeOk) EXCEPT
                         !.pc = IF store.pc = "idle" THEN "idle" ELSE "got",
                         !.result = GetSourcesResult(store)]
    /\ UNCHANGED <<cacheVars, parseVars, sourceVars, bundleVars, fs, skillVars, filesVars,
                   trackerVars, dc, tls, provider, bar>>

(***************************************************************************)
(* Initial state and specifications.                                       *)
(***************************************************************************)
NoDoc    == [form |-> "none"]
NoGetFiles == [pc |-> "none", count |-> 0]
NoClear    == [pc |-> "none", count |-> 0]
Unparsed == [status |-> "none"]
NoCheck  == [pc |-> "none"]
NoWalk   == [pc |-> "idle"]
NoTree   == [pc |-> "idle"]
NoStatus == [visible |-> FALSE, kind |-> "none", timer |-> NoTimer, time |-> 0,
             hiddenBy |-> "none"]
NoStore  == [pc |-> "idle", config |-> <<>>, global |-> <<>>, set |-> <<>>,
             written |-> FALSE, before |-> <<>>, result |-> <<>>]

\* nothing is loaded, shown or stored
InitUi ==
    /\ provider = NoTree
    /\ bar = NoStatus
    /\ store = NoStore

InitCache ==
    /\ now = 0
    /\ ticks = 0
    /\ cache = <<>>
    /\ calls = <<>>

InitRest ==
    /\ sources = DefaultSources
    /\ dialog = [open |-> FALSE, sources |-> <<>>]
    /\ lastAdd = NoAdd
    /\ removed = {}
    /\ dl = Idle
    /\ sk = [pc |-> "idle"]
    /\ dc = NoWalk
    /\ tls = NoOverride
    /\ InitUi
    /\ gf = NoGetFiles
    /\ cleared = NoClear
    /\ ledger = <<>>
    /\ upd = NoCheck

Init ==
    /\ InitCache
    /\ doc = NoDoc
    /\ parsed = Unparsed
    /\ InitRest
    /\ fs = <<>>

\* the workspace may hold a skill folder of an earlier download
InitSkill ==
    /\ InitCache
    /\ doc = NoDoc
    /\ parsed = Unparsed
    /\ InitRest
    /\ fs \in SkillWorkspaces

\* the parser is about to be applied to a manifest document
InitParse ==
    /\ InitCache
    /\ doc \in Docs
    /\ parsed = Unparsed
    /\ InitRest
    /\ fs = <<>>

NextCache ==
    \/ Tick
    \/ GetFilesByRepoCached
    \/ GetFilesByRepoRequest
    \/ GetFilesByRepoResponse
    \/ GetFilesByRepoFailure

SpecCache == Init /\ [][NextCache]_vars

NextParse == ParseManifest

SpecParse == InitParse /\ [][NextParse]_vars

NextSources ==
    \/ OpenManageSources
    \/ CloseManageSources
    \/ AddRepository
    \/ RemoveRepository
    \/ ResetToDefault

SpecSources == Init /\ [][NextSources]_vars

NextBundle ==
    \/ StartCollectionDownload
    \/ ConfirmCollectionDownload
    \/ WriteCollectionFile
    \/ DownloadCollectionItem
    \/ ShowCollectionSummary

SpecBundle == Init /\ [][NextBundle]_vars

NextSkill ==
    \/ StartSkillDownload
    \/ DownloadSkillFile

SpecSkill == InitSkill /\ [][NextSkill]_vars

\* the registry starts from the sources of the settings
InitRegistry ==
    /\ InitCache
    /\ doc = NoDoc
    /\ parsed = Unparsed
    /\ sources \in ConfiguredSources
    /\ dialog = [open |-> FALSE, sources |-> <<>>]
    /\ lastAdd = NoAdd
    /\ removed = {}
    /\ dl = Idle
    /\ sk = [pc |-> "idle"]
    /\ dc = NoWalk
    /\ tls = NoOverride
    /\ InitUi
    /\ gf = NoGetFiles
    /\ cleared = NoClear
    /\ ledger = <<>>
    /\ upd = NoCheck
    /\ fs = <<>>

NextRegistry ==
    \/ OpenManageSources
    \/ CloseManageSources
    \/ AddRepository
    \/ RemoveRepository
    \/ ResetToDefault
    \/ RemoveRepoCommand

SpecRegistry == InitRegistry /\ [][NextRegistry]_vars

\* source lists of the merged listing: one source, or the same owner and
\* repo on two base URLs
MergedSources ==
    { <<RepoPublic>>, <<RepoPublic, RepoEnterprise>>, <<RepoPublic, RepoAcme>> }

\* the record getFilesByRepo writes for a target whose request is answered
\* with the listing raw
ListedEntry(tg, raw) ==
    [data |-> FilterListing(raw, tg[2], tg[1]), timestamp |-> 0,
     category |-> tg[2], repo |-> tg[1]]

\* caches left by earlier getFilesByRepo calls: for each target no record,
\* or the record of one of the listings
ListedCaches ==
    { [k \in {CacheKey(tg[1], tg[2]) : tg \in targets} |->
          LET tg == CHOOSE t \in targets : CacheKey(t[1], t[2]) = k IN
          ListedEntry(tg, raws[tg])] :
      targets \in SUBSET CacheTargets, raws \in [CacheTargets -> RawListings] }

\* the merged listing starts from the sources of the settings and a cache
\* that getFilesByRepo may have filled
InitFiles ==
    /\ now = 0
    /\ ticks = 0
    /\ cache \in ListedCaches
    /\ calls = <<>>
    /\ doc = NoDoc
    /\ parsed = Unparsed
    /\ sources \in MergedSources
    /\ dialog = [open |-> FALSE, sources |-> <<>>]
    /\ lastAdd = NoAdd
    /\ removed = {}
    /\ dl = Idle
    /\ sk = [pc |-> "idle"]
    /\ dc = NoWalk
    /\ tls = NoOverride
    /\ InitUi
    /\ gf = NoGetFiles
    /\ cleared = NoClear
    /\ ledger = <<>>
    /\ upd = NoCheck
    /\ fs = <<>>

NextFiles ==
    \/ GetFiles
    \/ RefreshRepoCommand

SpecFiles == InitFiles /\ [][NextFiles]_vars

\* source lists in which a source can be removed
RemovableSources == { <<RepoPublic, RepoAcme>>, <<RepoPublic, RepoEnterprise, RepoAcme>> }

\* listing fetches and removals start from the sources of the settings
InitRemoval ==
    /\ InitCache
    /\ doc = NoDoc
    /\ parsed = Unparsed
    /\ sources \in RemovableSources
    /\ dialog = [open |-> FALSE, sources |-> <<>>]
    /\ lastAdd = NoAdd
    /\ removed = {}
    /\ dl = Idle
    /\ sk = [pc |-> "idle"]
    /\ dc = NoWalk
    /\ tls = NoOverride
    /\ InitUi
    /\ gf = NoGetFiles
    /\ cleared = NoClear
    /\ ledger = <<>>
    /\ upd = NoCheck
    /\ fs = <<>>

NextRemoval ==
    \/ GetFilesByRepoCached
    \/ GetFilesByRepoRequest
    \/ GetFilesByRepoResponse
    \/ GetFilesByRepoFailure
    \/ RemoveRepoCommand

SpecRemoval == InitRemoval /\ [][NextRemoval]_vars

\* a workspace that already holds the collection file and a.md, from an
\* earlier download or written by hand
ExistingContent == "old"

ExistingFiles ==
    FsWrite(FsWrite(FsMkdir(FsMkdir(<<>>, WorkspaceRoot \o FolderPath(CatCollections)),
                            WorkspaceRoot \o FolderPath(CatInstructions)),
                    Append(WorkspaceRoot \o FolderPath(CatCollections), CollectionName),
                    ExistingContent),
            Append(WorkspaceRoot \o FolderPath(CatInstructions), FileA.name),
            ExistingContent)

\* a collection download into that workspace
InitOverwrite ==
    /\ InitCache
    /\ doc = NoDoc
    /\ parsed = Unparsed
    /\ InitRest
    /\ fs = ExistingFiles

SpecOverwrite == InitOverwrite /\ [][NextBundle]_vars

NextWalk ==
    \/ StartDirectoryContents
    \/ RequestDirectory
    \/ WalkEntry

SpecWalk == Init /\ [][NextWalk]_vars

\* the setting may be absent or set when the extension starts
InitTls ==
    /\ InitCache
    /\ doc = NoDoc
    /\ parsed = Unparsed
    /\ sources = DefaultSources
    /\ dialog = [open |-> FALSE, sources |-> <<>>]
    /\ lastAdd = NoAdd
    /\ removed = {}
    /\ dl = Idle
    /\ sk = [pc |-> "idle"]
    /\ dc = NoWalk
    /\ \E v \in EnvValues : tls = [NoOverride EXCEPT !.env = v, !.initial = v]
    /\ InitUi
    /\ gf = NoGetFiles
    /\ cleared = NoClear
    /\ ledger = <<>>
    /\ upd = NoCheck
    /\ fs = <<>>

\* the merged listing of the default source when requests can be answered
\* with 401 or 403
InitAuth ==
    /\ InitFiles
    /\ sources = DefaultSources

NextAuth == GetFilesWithAuth

SpecAuth == InitAuth /\ [][NextAuth]_vars

\* the two stores may hold anything when the extension starts
InitStore ==
    /\ InitCache
    /\ doc = NoDoc
    /\ parsed = Unparsed
    /\ sources = DefaultSources
    /\ dialog = [open |-> FALSE, sources |-> <<>>]
    /\ lastAdd = NoAdd
    /\ removed = {}
    /\ dl = Idle
    /\ sk = [pc |-> "idle"]
    /\ dc = NoWalk
    /\ tls = NoOverride
    /\ provider = NoTree
    /\ bar = NoStatus
    /\ \E c \in StoredLists, g \in StoredLists :
          store = [NoStore EXCEPT !.config = c, !.global = g]
    /\ gf = NoGetFiles
    /\ cleared = NoClear
    /\ ledger = <<>>
    /\ upd = NoCheck
    /\ fs = <<>>

NextStore ==
    \/ SetSourcesCall
    \/ GetSourcesCall

SpecStore == InitStore /\ [][NextStore]_vars

NextStatus ==
    \/ ShowStatus
    \/ HideStatus
    \/ StatusTimerFires
    \/ StatusTick

SpecStatus == Init /\ [][NextStatus]_vars

NextLoader == LoadCategory

SpecLoader == Init /\ [][NextLoader]_vars

NextTls ==
    \/ BeginRequest
    \/ EndRequest

SpecTls == InitTls /\ [][NextTls]_vars

\* getFiles and getFilesByRepo on one cache, for two sources
InitListing ==
    /\ InitCache
    /\ doc = NoDoc
    /\ parsed = Unparsed
    /\ sources = <<RepoPublic, RepoEnterprise>>
    /\ dialog = [open |-> FALSE, sources |-> <<>>]
    /\ lastAdd = NoAdd
    /\ removed = {}
    /\ dl = Idle
    /\ sk = [pc |-> "idle"]
    /\ dc = NoWalk
    /\ tls = NoOverride
    /\ InitUi
    /\ gf = NoGetFiles
    /\ cleared = NoClear
    /\ ledger = <<>>
    /\ upd = NoCheck
    /\ fs = <<>>

NextListing ==
    \/ GetFilesByRepoCached
    \/ GetFilesByRepoRequest
    \/ GetFilesByRepoResponse
    \/ GetFilesByRepoFailure
    \/ GetFiles

SpecListing == InitListing /\ [][NextListing]_vars

NextTracker ==
    \/ DownloadRegularFile
    \/ CheckForUpdates
    \/ Tick

SpecTracker == Init /\ [][NextTracker]_vars

(***************************************************************************)
(* Claims about the listing cache (SpecCache).                             *)
(***************************************************************************)
SameKey(c1, c2) == CacheKey(c1.repo, c1.category) = CacheKey(c2.repo, c2.category)

\* C1: a getFilesByRepo call without forceRefresh that finds a record stored
\* with timestamp t0 at a time t with t - t0 < 1 hour returns the record's
\* entries and issues no listing request; a call at t0 + 1 hour + 1 ms or
\* later issues a listing request.
C1_CacheFreshness ==
    \A i \in 1..Len(calls) :
        \A e \in calls[i].seen :
            /\ (~calls[i].forceRefresh /\ calls[i].now - e.timestamp < CACHE_DURATION)
                  => /\ ~calls[i].requested
                     /\ calls[i].outcome = "cached"
                     /\ calls[i].result = e.data
            /\ (calls[i].now - e.timestamp >= CACHE_DURATION + 1)
                  => calls[i].requested

\* a call made 1 ms before its record expires was served from the cache
C1_Witness ==
    \E i \in 1..Len(calls) :
        /\ ~calls[i].forceRefresh
        /\ calls[i].outcome = "cached"
        /\ calls[i].result # <<>>
        /\ \E e \in calls[i].seen : calls[i].now - e.timestamp = CACHE_DURATION - 1

\* C2: when the listing request for (source, X) answers 404, two consecutive
\* gets for (source, X) within the TTL window issue at most one listing
\* request in total, and both return the empty list.
C2_AbsentIsCached ==
    \A i \in 1..Len(calls) : \A j \in 1..Len(calls) :
        ( /\ j = i + 1
          /\ i \in calls[j].after
          /\ SameKey(calls[i], calls[j])
          /\ calls[i].response = "http404"
          /\ ~calls[j].forceRefresh
          /\ calls[j].now - calls[i].now < CACHE_DURATION
          /\ calls[j].pc = "done" )
        => /\ ~calls[j].requested
           /\ calls[i].result = <<>>
           /\ calls[j].result = <<>>

\* C3: when the listing request of getFilesByRepo fails with anything other
\* than 404, the call ends with an error, and the cache is left as it was:
\* no record is written and the record of the key (if any) is unchanged.
C3_FailureLeavesCache ==
    [][ \A i \in 1..Len(calls) :
          ( /\ calls[i].pc = "await"
            /\ calls'[i].pc = "done"
            /\ calls'[i].response \in FailureKinds \ {"http404"} )
          => /\ calls'[i].outcome = "error"
             /\ calls'[i].result = <<>>
             /\ cache' = cache ]_vars

\* a call that found a record under its key failed, and the record is still there
C3_Witness ==
    \E i \in 1..Len(calls) :
        /\ calls[i].outcome = "error"
        /\ calls[i].seen # {}
        /\ Lookup(cache, CacheKey(calls[i].repo, calls[i].category)) = calls[i].seen

(***************************************************************************)
(* Claims about the manifest parser (SpecParse).                           *)
(***************************************************************************)
InvalidFields(d) ==
    {f \in ManifestFields :
        \/ f = "id" /\ ~IdValid(d.id)
        \/ f = "name" /\ ~NameValid(d.name)
        \/ f = "description" /\ ~DescriptionValid(d.description)
        \/ f = "items" /\ ~ItemsValid(d.items)}

FieldsNamed(message) == SeqToSet(message) \cap ManifestFields

\* C6: for a manifest mapping in which exactly one of the required fields is
\* invalid, parseCollectionYaml fails with an error whose message names that
\* field and no other field.
C6_FieldError ==
    \A f \in ManifestFields :
        (parsed.status # "none" /\ doc.form = "mapping" /\ InvalidFields(doc) = {f})
        => /\ parsed.status = "error"
           /\ FieldsNamed(parsed.message) = {f}
           /\ parsed.message[1] = ParsePrefix

\* a manifest whose only invalid field is a whitespace-only name was rejected
C6_Witness ==
    /\ doc.form = "mapping"
    /\ InvalidFields(doc) = {"name"}
    /\ doc.name.kind = "string" /\ doc.name.chars # <<>>
    /\ parsed.status = "error"

\* C7: a manifest that is empty, unparseable or not a mapping is rejected
\* with the generic format error, which names none of the fields and so
\* differs from every field-validation error.
C7_FormatError ==
    (parsed.status # "none" /\ doc.form \in NonMappingForms)
    => /\ parsed.status = "error"
       /\ parsed.message = <<ParsePrefix, "Invalid collection YAML format">>
       /\ FieldsNamed(parsed.message) = {}
       /\ \A f \in ManifestFields : parsed # FieldError(f)

\* an empty manifest was rejected
C7_Witness == doc.form = "empty" /\ parsed.status = "error"

\* C8: every manifest with a non-empty id, a non-blank name, a non-blank
\* description and a list of items (the empty list included) parses, and the
\* result keeps id, name, description, tags, display and the items in order.
C8_ValidParses ==
    (parsed.status # "none" /\ doc.form = "mapping" /\ InvalidFields(doc) = {})
    => /\ parsed.status = "ok"
       /\ parsed.metadata.id = doc.id.chars
       /\ parsed.metadata.name = doc.name.chars
       /\ parsed.metadata.description = doc.description.chars
       /\ parsed.metadata.tags = doc.tags
       /\ parsed.metadata.display = doc.display
       /\ parsed.metadata.items = doc.items.list

\* a valid manifest with an empty list of items was parsed
C8_Witness ==
    /\ doc.form = "mapping"
    /\ InvalidFields(doc) = {}
    /\ doc.items.list = <<>>
    /\ parsed.status = "ok"

(***************************************************************************)
(* Claims about the source registry (SpecSources).                         *)
(***************************************************************************)
\* C10: adding a source is rejected as a duplicate if and only if the
\* registry already holds a source with the same (base endpoint, owner,
\* name); the same owner and name under another base endpoint is not a
\* duplicate.
C10_DuplicateByIdentity ==
    lastAdd.outcome \in {"duplicate", "added", "rejected"}
    => ( lastAdd.outcome = "duplicate"
         <=> IsDuplicateByIdentity(lastAdd.before, lastAdd.candidate.owner,
                                   lastAdd.candidate.repo, lastAdd.candidate.baseUrl) )

(***************************************************************************)
(* Claims about the collection download (SpecBundle).                      *)
(***************************************************************************)
KnownPositions == {k \in 1..Len(dl.items) : dl.items[k].kind \in ItemKinds}

PositionsOf(list) == {list[k].pos : k \in 1..Len(list)}

LoopEnded == dl.pc = "summary" \/ (dl.pc = "done" /\ dl.summarized)

\* C5: in a bundle download every item of known kind is attempted whatever
\* happened to the items before it, and at the end each is in exactly one of
\* the downloaded list and the failed list (downloaded + failed = N); an item
\* is in the failed list exactly when its listing lookup, its match, its
\* content fetch or its file write failed.
C5_PartialFailure ==
    LoopEnded
    => /\ PositionsOf(dl.downloaded) \cup PositionsOf(dl.failed) = KnownPositions
       /\ PositionsOf(dl.downloaded) \cap PositionsOf(dl.failed) = {}
       /\ Len(dl.downloaded) + Len(dl.failed) = Cardinality(KnownPositions)
       /\ \A k \in KnownPositions :
            \E a \in 1..Len(dl.attempts) :
                /\ dl.attempts[a].pos = k
                /\ k \in PositionsOf(dl.failed)
                     <=> \/ dl.attempts[a].listing = "error"
                         \/ ~dl.attempts[a].matched
                         \/ ~dl.attempts[a].fetched
                         \/ ~dl.attempts[a].written

\* a bundle of two items ended with its first item failed and its second downloaded
C5_Witness ==
    /\ dl.pc = "summary"
    /\ Len(dl.items) = 2
    /\ PositionsOf(dl.failed) = {1}
    /\ PositionsOf(dl.downloaded) = {2}

\* C9: when the manifest fails to parse or validate, nothing of the
\* resolution happens: no listing is requested, no item content is fetched,
\* no file is written, and the error is shown to the user.
C9_NoResolutionAfterParseFailure ==
    (dl.pc # "idle" /\ dl.parseFailed)
    => /\ dl.listingRequests = 0
       /\ dl.contentFetches = 0
       /\ dl.attempts = <<>>
       /\ fs = dl.fsBefore
       /\ cache = dl.cacheBefore
       /\ dl.errorShown
       /\ dl.pc = "done"

\* a manifest without an id was rejected by the download
C9_Witness ==
    /\ dl.pc = "done"
    /\ dl.parseFailed
    /\ doc.form = "mapping"
    /\ parsed.status = "error"

(***************************************************************************)
(* Claims about the skill folder download (SpecSkill).                     *)
(***************************************************************************)
\* C4: a file of the recursive listing of a skill folder is written only if
\* its resolved target path lies inside the target skill directory; an entry
\* whose relative path would escape it is rejected, and nothing is ever
\* written outside the target skill folder.
C4_PathTraversalSafe ==
    sk.pc # "idle"
    => \A p \in sk.written : IsPrefix(sk.target, p) /\ p # sk.target

(***************************************************************************)
(* Claims about the removal of sources (SpecRegistry).                     *)
(***************************************************************************)
\* C11: after any sequence of Add Repository, Remove Repository, removeRepo
\* and Reset to Default the stored source list holds at least one source.
C11_AtLeastOneSource == Len(sources) >= 1

(***************************************************************************)
(* Claims about clearRepoCache and the merged listing (SpecFiles).         *)
(***************************************************************************)
SameSource(r1, r2) ==
    r1.owner = r2.owner /\ r1.repo = r2.repo /\ r1.baseUrl = r2.baseUrl

C13_RemovalCascades ==
    \A r \in removed :
        ( /\ \A i \in 1..Len(calls) : calls[i].pc = "done"
          /\ \A i \in 1..Len(calls) : i > r.callsAt => ~SameSource(calls[i].repo, r.repo) )
        => \A k \in DOMAIN cache : ~SameSource(cache[k].repo, r.repo)

(***************************************************************************)
(* Claims about the download records (SpecTracker).                        *)
(***************************************************************************)
\* C14 (as stated): for a recorded item hasUpdate is true if the live entry
\* has a sha and it differs from the recorded one; otherwise it is true
\* exactly when the live size differs from the recorded size.
C14_HasUpdateAsStated ==
    (upd.pc = "done" /\ upd.recorded)
    => LET m == upd.downloads[upd.id] IN
       upd.result = IF upd.file.sha # NoSha /\ upd.file.sha # m.sha
                    THEN TRUE
                    ELSE upd.file.size # m.size

\* C14 (amended): for a recorded item hasUpdate is true if the live entry
\* and the record both have a sha and the two differ; otherwise it is true
\* exactly when the live size differs from the recorded size.
C14_HasUpdate ==
    (upd.pc = "done" /\ upd.recorded)
    => LET m == upd.downloads[upd.id] IN
       upd.result = IF upd.file.sha # NoSha /\ m.sha # NoSha /\ upd.file.sha # m.sha
                    THEN TRUE
                    ELSE upd.file.size # m.size

\* an item recorded without a sha was checked against a live entry that has
\* one and the same size, and no update was reported
C14_Witness ==
    /\ upd.pc = "done" /\ upd.recorded
    /\ upd.downloads[upd.id].sha = NoSha
    /\ upd.file.sha # NoSha
    /\ upd.file.size = upd.downloads[upd.id].size
    /\ ~upd.result

(***************************************************************************)
(* Claims about the merged listing (SpecFiles, SpecListing).               *)
(***************************************************************************)
\* the names source i listed in the last getFiles call: the names of its
\* cache record when the cache served it, else the names of the entries of
\* the category's kind in the answer to its request
ListedNames(i) ==
    LET key == CacheKey(gf.sources[i], gf.category) IN
    IF gf.answers[i].kind = "cached"
    THEN {gf.cacheBefore[key].data[x].name : x \in 1..Len(gf.cacheBefore[key].data)}
    ELSE {gf.answers[i].body[x].name : x \in
             {y \in 1..Len(gf.answers[i].body) :
                 gf.answers[i].body[y].type = IF gf.category = CatSkills THEN "dir" ELSE "file"}}

\* the entries of the last getFiles result with this name
ResultNamed(name) == {x \in 1..Len(gf.result) : gf.result[x].name = name}

\* C15: when two configured sources both list an entry of the same name,
\* the result of getFiles has one entry of that name per source, every entry
\* of that name has a displayName, and the displayName carries the owner and
\* the repo of the entry's own source.
C15_CollisionDisambiguated ==
    gf.pc = "done" =>
    \A i, j \in 1..Len(gf.sources) :
       i # j =>
       \A name \in ListedNames(i) \cap ListedNames(j) :
          /\ \A s \in {i, j} :
                Cardinality({x \in ResultNamed(name) : gf.result[x].repo = gf.sources[s]}) = 1
          /\ \A x \in ResultNamed(name) :
                /\ "displayName" \in DOMAIN gf.result[x]
                /\ gf.result[x].displayName =
                      <<name, gf.result[x].repo.owner, gf.result[x].repo.repo>>

\* two sources of different owners both listed a.md, one from the cache and
\* one from its request, and the result names the two owners
C15_Witness ==
    /\ gf.pc = "done"
    /\ Len(gf.sources) = 2
    /\ gf.sources[1].owner # gf.sources[2].owner
    /\ gf.answers[1].kind = "cached"
    /\ gf.answers[2].kind = "body"
    /\ "a.md" \in ListedNames(1) \cap ListedNames(2)
    /\ \E x, y \in ResultNamed("a.md") :
          /\ gf.result[x].displayName = <<"a.md", "github", "awesome-copilot">>
          /\ gf.result[y].displayName = <<"a.md", "acme", "kit">>

\* the kind of entry a listing of the category returns
KindOf(category) == IF category = CatSkills THEN "dir" ELSE "file"

\* every entry of the list is of the category's kind
AllOfKind(files, category) ==
    \A x \in 1..Len(files) : files[x].type = KindOf(category)

FileKinds == {"instruction", "prompt", "agent"}

MappedCategory(kind) ==
    CASE kind = "instruction" -> "instructions"
      [] kind = "prompt"      -> "prompts"
      [] kind = "agent"       -> "agents"

\* the entries of a listing that have this name
EntriesNamed(files, name) == {k \in 1..Len(files) : files[k].name = name}

\* the loop over the items has just handled an item of a single-file kind
FileItemHandled ==
    /\ dl.pc = "items"
    /\ Len(dl'.attempts) = Len(dl.attempts) + 1
    /\ dl.items[dl.i].kind \in FileKinds

\* C17 (as stated): an item of kind instruction, prompt or agent succeeds
\* whenever the listing of its category has an entry with the basename of
\* its path.
C17_MatchedItemSucceeds ==
    dl.pc # "idle" =>
    \A a \in 1..Len(dl.attempts) :
       LET at  == dl.attempts[a]
           ref == dl.items[at.pos] IN
       (ref.kind \in FileKinds /\ EntriesNamed(at.files, ref.path[Len(ref.path)]) # {})
       => at.outcome = "downloaded"

\* C17 (amended): an item of kind instruction, prompt or agent is matched
\* against the listing of its mapped category by the basename of its path.
\* With an entry of that name, and its content fetched and written without
\* error, the item succeeds and the fetched content is in the category's
\* fixed folder under that basename; with none, or when the fetch or the
\* write fails, the item is a failure and no file is written.
C17_ResolveAndMaterialize ==
    [][ FileItemHandled =>
        LET ref    == dl.items[dl.i]
            at     == dl'.attempts[Len(dl'.attempts)]
            name   == ref.path[Len(ref.path)]
            named  == EntriesNamed(at.files, name)
            target == <<"ws", ".github", MappedCategory(ref.kind), name>>
        IN
        /\ at.listing \in {"ok", "cached"} =>
              \A k \in 1..Len(at.files) :
                 at.files[k].repo = CollectionRepo /\ at.files[k].type = "file"
        /\ at.matched <=> (named # {})
        /\ IF named # {} /\ at.fetched /\ at.written
           THEN /\ at.outcome = "downloaded"
                /\ target \in DOMAIN fs'
                /\ \E k \in named : fs'[target] = at.files[k].download_url
                /\ Len(dl'.downloaded) = Len(dl.downloaded) + 1
                /\ dl'.failed = dl.failed
           ELSE /\ at.outcome = "failed"
                /\ Len(dl'.failed) = Len(dl.failed) + 1
                /\ dl'.failed[Len(dl'.failed)].pos = dl.i
                /\ dl'.downloaded = dl.downloaded
                /\ \A p \in DOMAIN fs' : p \in DOMAIN fs \/ fs'[p] = DirMark
      ]_vars

\* an instruction item whose path differs from the path of the listing
\* entry was matched by its basename and written to .github/instructions,
\* and a prompt item found no entry of its name and failed
C17_Witness ==
    /\ dl.pc # "idle"
    /\ \E a, b \in 1..Len(dl.attempts) :
          /\ dl.items[dl.attempts[a].pos] = RefInstructionA
          /\ dl.attempts[a].outcome = "downloaded"
          /\ <<"ws", ".github", "instructions", "a.md">> \in DOMAIN fs
          /\ fs[<<"ws", ".github", "instructions", "a.md">>] = FileA.download_url
          /\ dl.items[dl.attempts[b].pos] = RefPromptB
          /\ dl.attempts[b].listing = "ok"
          /\ ~dl.attempts[b].matched
          /\ dl.attempts[b].outcome = "failed"

\* the entry of the failed list for the item at a position
FailedAt(pos) == {k \in 1..Len(dl.failed) : dl.failed[k].pos = pos}

\* C18: an item whose content fetch is answered with 404 is in the failed
\* list with the not-found reason, one whose fetch gets no response with the
\* network-error reason, one answered with another status with the
\* HTTP-error reason and that status.
C18_FailureClassified ==
    dl.pc # "idle" =>
    \A a \in 1..Len(dl.attempts) :
       LET at == dl.attempts[a] IN
       at.fetchFailure \in FailureKinds =>
          \E k \in FailedAt(at.pos) :
             dl.failed[k].reason =
                CASE at.fetchFailure = "http404" -> NotFoundReason
                  [] at.fetchFailure = "network" -> NetworkErrorReason
                  [] at.fetchFailure = "http500" -> HttpErrorReason(500)

\* C19: an item of a kind other than instruction, prompt, agent, skill is
\* recorded in the failed list, and the items after it are still handled.
C19_UnknownKindFails ==
    (dl.pc # "idle" /\ LoopEnded) =>
    /\ \A pos \in 1..Len(dl.items) :
          \E a \in 1..Len(dl.attempts) : dl.attempts[a].pos = pos
    /\ \A pos \in 1..Len(dl.items) :
          dl.items[pos].kind \notin (FileKinds \cup {"skill"}) => FailedAt(pos) # {}

\* C20: after a file has been written by a download, on its own or as an
\* item of a collection, the ledger has a record under the id of the item.
C20_RecordOnEveryMaterialization ==
    dl.pc # "idle" =>
    \A k \in 1..Len(dl.downloaded) :
       LET d == dl.downloaded[k] IN
       d.kind \in FileKinds =>
          <<MappedCategory(d.kind), d.name, CollectionRepo.owner, CollectionRepo.repo>>
             \in DOMAIN ledger

(***************************************************************************)
(* Claims about overwriting (SpecOverwrite).                               *)
(***************************************************************************)
\* C21: an existing file is replaced only after an overwrite decision for
\* its path. A collection download asks for no such decision (its only
\* question is whether to download), so no step of it may change or remove
\* a file that exists.
C21_OverwriteOnlyOnDecision ==
    [][ \A p \in DOMAIN fs :
           fs[p] # DirMark => (p \in DOMAIN fs' /\ fs'[p] = fs[p]) ]_vars

(***************************************************************************)
(* Claims about getDirectoryContents (SpecWalk).                           *)
(***************************************************************************)
\* the directory paths a remote tree knows: the listed ones and the ones
\* its directory entries name
DirPathsOf(tree) ==
    LET dirs(p) == {x \in 1..Len(tree[p]) : tree[p][x].type = "dir"} IN
    (DOMAIN tree) \cup UNION { {tree[p][x].path : x \in dirs(p)} : p \in DOMAIN tree }

\* C22: getDirectoryContents ends after a bounded number of listing
\* requests whatever the remote tree: it never sends more requests than the
\* tree has directory paths, also when a directory lists itself or two
\* directories list each other.
C22_BoundedListingRequests ==
    dc.pc # "idle" => dc.requests <= Cardinality(DirPathsOf(dc.tree))

(***************************************************************************)
(* Claims about the skill folder download (SpecSkill).                     *)
(***************************************************************************)
\* the file entries of the recursive listing of the download
FileEntries == {x \in 1..Len(sk.contents) : sk.contents[x].type = "file"}

\* the entry lies below the skill root R
BelowRoot(entry) ==
    /\ Len(entry.path) > Len(SkillItem.path)
    /\ SubSeq(entry.path, 1, Len(SkillItem.path)) = SkillItem.path

\* <target skill folder>/p for an entry of path R/p
TargetOf(entry) ==
    sk.target \o SubSeq(entry.path, Len(SkillItem.path) + 1, Len(entry.path))

\* the download went through its loop and ended without an error
SkillDownloaded == sk.pc = "done" /\ ~sk.errorShown /\ sk.contents # <<>>

\* a listing as the contents API gives it for a tree: every entry below R,
\* no ".." segment, no path twice
WellFormedListing ==
    /\ \A x \in 1..Len(sk.contents) :
          /\ BelowRoot(sk.contents[x])
          /\ \A s \in 1..Len(sk.contents[x].path) : sk.contents[x].path[s] # ".."
    /\ \A x, y \in 1..Len(sk.contents) :
          sk.contents[x].path = sk.contents[y].path => x = y

\* the files written are the file entries R/p at target/p, nothing else is
\* written, and there are as many files as file entries
StructurePreserved ==
    /\ \A x \in FileEntries :
          BelowRoot(sk.contents[x]) =>
             /\ TargetOf(sk.contents[x]) \in DOMAIN fs
             /\ fs[TargetOf(sk.contents[x])] = sk.contents[x].download_url
             /\ FolderExists(fs, SubSeq(TargetOf(sk.contents[x]), 1,
                                        Len(TargetOf(sk.contents[x])) - 1))
    /\ \A p \in DOMAIN fs :
          \/ fs[p] = DirMark
          \/ \E x \in FileEntries : BelowRoot(sk.contents[x]) /\ p = TargetOf(sk.contents[x])
          \/ (p \in DOMAIN sk.fsBefore /\ fs[p] = sk.fsBefore[p])
    /\ Cardinality({p \in DOMAIN fs : IsPrefix(sk.target, p) /\ fs[p] # DirMark})
          = Cardinality(FileEntries)

C30_FailureKeepsFolder ==
    (sk.pc = "done" /\ sk.errorShown /\ FolderExists(sk.fsBefore, sk.target)) =>
    \A p \in (DOMAIN fs) \cup (DOMAIN sk.fsBefore) :
       IsPrefix(sk.target, p) =>
          /\ p \in DOMAIN sk.fsBefore => (p \in DOMAIN fs /\ fs[p] = sk.fsBefore[p])
          /\ p \in DOMAIN fs => (fs[p] = DirMark \/ p \in DOMAIN sk.fsBefore)

(***************************************************************************)
(* Claims about forced refresh and overlapping gets (SpecCache).           *)
(***************************************************************************)
\* the request of call i is answered with a body in this step
AnsweredNow(i) ==
    /\ i <= Len(calls)
    /\ calls[i].pc = "await"
    /\ calls'[i].pc = "done"
    /\ calls'[i].outcome = "ok"

\* C24: a get with forceRefresh = true issues a listing request even when a
\* fresh record exists, and when the request is answered the record of the
\* key holds exactly the entries of that answer, with the time of the call.
C24_ForceRefreshReplaces ==
    /\ [](\A i \in 1..Len(calls) : calls[i].forceRefresh => calls[i].requested)
    /\ [][ \A i \in 1..MaxCalls + 1 :
              (AnsweredNow(i) /\ calls[i].forceRefresh) =>
                 LET key == CacheKey(calls[i].repo, calls[i].category) IN
                 /\ key \in DOMAIN cache'
                 /\ cache'[key].data = calls'[i].result
                 /\ cache'[key].timestamp = calls[i].now ]_vars

\* a forced get that found a fresh record was answered with other entries,
\* and the record holds the new entries
C24_Witness ==
    \E i \in 1..Len(calls) :
       LET key == CacheKey(calls[i].repo, calls[i].category) IN
       /\ calls[i].forceRefresh
       /\ calls[i].outcome = "ok"
       /\ \E e \in calls[i].seen :
             /\ calls[i].now - e.timestamp < CACHE_DURATION
             /\ e.data # <<>>
             /\ e.data # calls[i].result
       /\ key \in DOMAIN cache
       /\ cache[key].data = calls[i].result
       /\ calls[i].result # <<>>

C27_TimestampMonotone ==
    [][ \A k \in DOMAIN cache :
           k \in DOMAIN cache' /\ cache'[k].timestamp >= cache[k].timestamp ]_vars

(***************************************************************************)
(* Claims about the order of a bundle download (SpecBundle).               *)
(***************************************************************************)
\* the positions of the list increase from each entry to the next
OrderedByPosition(list) ==
    \A x, y \in 1..Len(list) : x < y => list[x].pos < list[y].pos

\* C25: the items are handled one after the other in manifest order: the
\* item at position i+1 is looked up only when the item at position i has
\* been handled to its end, and the downloaded list and the failed list are
\* each ordered by manifest position.
C25_SequentialInOrder ==
    /\ [](dl.pc # "idle" =>
            /\ \A a \in 1..Len(dl.attempts) : dl.attempts[a].pos = a
            /\ dl.pc = "items" => dl.i = Len(dl.attempts) + 1
            /\ OrderedByPosition(dl.downloaded)
            /\ OrderedByPosition(dl.failed))
    /\ [][ (dl.pc = "items" /\ dl'.pc \in {"items", "summary"}) =>
              /\ Len(dl'.attempts) = Len(dl.attempts) + 1
              /\ dl'.attempts[Len(dl'.attempts)].pos = dl.i
              /\ dl'.attempts[Len(dl'.attempts)].outcome \in {"downloaded", "failed", "skipped"}
              /\ dl'.i = dl.i + 1
              /\ dl'.listingRequests - dl.listingRequests \in {0, 1}
              /\ dl'.contentFetches - dl.contentFetches \in {0, 1} ]_vars

\* two items were downloaded, and two items of another download failed
C25_Witness ==
    /\ dl.pc = "done"
    /\ dl.summarized
    /\ Len(dl.downloaded) = 2
    /\ dl.downloaded[1].pos = 1 /\ dl.downloaded[2].pos = 2
    /\ dl.downloaded[1].name # dl.downloaded[2].name

(***************************************************************************)
(* Claims about the TLS override (SpecTls).                                *)
(***************************************************************************)
\* C28: whenever no request is in flight, NODE_TLS_REJECT_UNAUTHORIZED has
\* the value it had before the first request.
C28_RestoredWhenIdle ==
    tls.inflight = {} => tls.env = tls.initial

(***************************************************************************)
(* Claims about a check right after a download (SpecTracker).              *)
(***************************************************************************)
\* C29: right after a regular file has been downloaded and recorded, and
\* with the listing entry it was downloaded from unchanged (same sha, same
\* size), hasUpdate for the item is false: in every step that records a
\* download, each listing entry f and content that give the record written
\* by the step have HasUpdate false for f on the new ledger.
C29_NoFalseUpdate ==
    [][ ledger' # ledger =>
          \A sha \in LiveShas, size \in LiveSizes, content \in Contents :
             LET f == LiveFile(sha, size) IN
             ledger' = RecordDownload(ledger, RegularItemId, f, content, now, TRUE)
                => ~HasUpdate(ledger', RegularItemId, f) ]_vars

(***************************************************************************)
(* Claims about the dialog and the stored source list (SpecRegistry).      *)
(***************************************************************************)
\* C31: an Add or a Remove performed in the open dialog does not undo a
\* modification another command made to the stored list in the meantime:
\* every source of the stored list after the step of the dialog is a source
\* of the stored list before it, or the source the step has just added.
C31_NoLostUpdate ==
    [][ (AddRepository \/ RemoveRepository) =>
           SeqToSet(sources') \subseteq
              SeqToSet(sources) \cup
              (IF lastAdd'.outcome = "added" THEN {lastAdd'.candidate} ELSE {}) ]_vars

(***************************************************************************)
(* Claims about the tree loader (SpecLoader).                              *)
(***************************************************************************)
\* C32: when the listing fetch of a (source, category) fails with a failure
\* other than HTTP 404, the tree records no listing for that category (an
\* empty one would show the category as absent) and the failure is reported.
C32_OnlyNotFoundIsAbsent ==
    (provider.pc = "loaded" /\ provider.last.response \in FailureKinds \ {"http404"}) =>
        /\ ~provider.last.recorded
        /\ provider.last.reported

(***************************************************************************)
(* Claims about the skill items of a bundle (SpecBundle).                  *)
(***************************************************************************)
\* the attempts made for items of kind skill whose listing was obtained
SkillAttempts ==
    IF dl.pc \in {"idle", "confirm", "failed"} \/ "attempts" \notin DOMAIN dl THEN {}
    ELSE
    {a \in 1..Len(dl.attempts) :
        /\ dl.items[dl.attempts[a].pos].kind = "skill"
        /\ dl.attempts[a].listing \in {"ok", "cached"}}

\* the folder of the workspace the skill of a manifest path belongs in
SkillTarget(p) == (WorkspaceRoot \o FolderPath(CatSkills)) \o <<p[2]>>

\* C33: a matched item of kind skill is materialized as a folder: unless a
\* request or a write fails, the item is downloaded and the workspace holds
\* files below the folder of the skill.
C33_SkillItemIsFolder ==
    \A a \in SkillAttempts :
       LET at == dl.attempts[a]
           p  == dl.items[at.pos].path IN
       (at.matched /\ at.fetchFailure \notin FailureKinds) =>
          /\ at.outcome = "downloaded"
          /\ \E q \in DOMAIN fs : /\ IsPrefix(SkillTarget(p), q)
                                  /\ q # SkillTarget(p)
                                  /\ fs[q] # DirMark

\* C34: for an item of kind skill with path P the matched entry is a
\* directory entry whose path equals P or is a path-prefix of P, and an
\* item without such an entry is in the failed list under its path.
C34_SkillMatchingRule ==
    \A a \in SkillAttempts :
       LET at   == dl.attempts[a]
           p    == dl.items[at.pos].path
           hits == {k \in 1..Len(at.files) :
                      at.files[k].type = "dir" /\ IsPrefix(at.files[k].path, p)} IN
       /\ at.matched <=> hits # {}
       /\ hits = {} => \E f \in 1..Len(dl.failed) :
                          dl.failed[f].pos = at.pos /\ dl.failed[f].path = p

(***************************************************************************)
(* Claims about failures in the merged listing (SpecFiles, SpecAuth).      *)
(***************************************************************************)
\* an entry without the display name getFiles gives it
WithoutDisplayName(f) == [x \in (DOMAIN f) \ {"displayName"} |-> f[x]]

\* the entries source i contributes: those of its fresh record, or those of
\* the listing it was answered with
EntriesOfSource(i) ==
    LET key == CacheKey(gf.sources[i], gf.category)
        own == IF gf.exchanges[i].first = NotRequested THEN gf.cacheBefore[key].data
               ELSE IF gf.answers[i].kind = "body"
               THEN FilterListing(gf.answers[i].body, gf.category, gf.sources[i])
               ELSE <<>>
    IN [x \in 1..Len(own) |-> WithoutDisplayName(own[x])]

\* C35: a failed listing request for one source does not keep the other
\* sources from being listed: the call returns, and its result is the
\* concatenation, in source order, of the entries of every source that was
\* fresh in the cache or answered with a listing.
C35_PartialFailureInMergedListing ==
    gf.pc = "done" =>
       [x \in 1..Len(gf.result) |-> WithoutDisplayName(gf.result[x])]
          = Flatten([i \in 1..Len(gf.sources) |-> EntriesOfSource(i)])

\* the first of two sources failed, the second was listed
C35_Witness ==
    /\ gf.pc = "done"
    /\ Len(gf.sources) = 2
    /\ gf.answers[1].kind = "failure" /\ gf.answers[1].failure = "http500"
    /\ gf.answers[2].kind = "body"
    /\ Len(gf.result) = 1
    /\ gf.result[1].repo = gf.sources[2]

\* C36: a failed listing request is sent again at most once, and only for a
\* status 401 or 403 with a session obtained by handleAuthError; when the
\* request sent again fails too, or none is sent, the failure is handled
\* per source (a warning unless the status is 404) and no cache record is
\* written for the key.
C36_AuthRetryBounded ==
    gf.pc = "done" =>
       \A i \in 1..Len(gf.sources) :
          LET x   == gf.exchanges[i]
              key == CacheKey(gf.sources[i], gf.category) IN
          /\ gf.requests[i] <= 2
          /\ gf.requests[i] = 2 =>
                /\ x.first.kind = "failure"
                /\ x.first.failure \in {"http401", "http403"}
                /\ x.auth = "signed-in"
          /\ (x.first.kind = "failure" /\ gf.answers[i].kind = "failure") =>
                /\ (i \in gf.warned <=> gf.answers[i].failure # "http404")
                /\ key \in DOMAIN cache <=> key \in DOMAIN gf.cacheBefore
                /\ key \in DOMAIN cache =>
                      cache[key].timestamp = gf.cacheBefore[key].timestamp

\* a request answered with 401 was sent again after a sign-in and failed
\* again with 401
C36_Witness ==
    /\ gf.pc = "done"
    /\ gf.exchanges[1].first.failure = "http401"
    /\ gf.exchanges[1].auth = "signed-in"
    /\ gf.exchanges[1].retry.kind = "failure"
    /\ gf.exchanges[1].retry.failure = "http401"
    /\ gf.requests[1] = 2
    /\ 1 \in gf.warned

(***************************************************************************)
(* Claims about the entries of the cache (SpecListing).                    *)
(***************************************************************************)
\* C39: a getFiles call does not modify the entries held in a cache record:
\* the record of a source it served from the cache holds after the call the
\* entries it held before, equal in every field.
C39_CachedEntriesImmutable ==
    [][ GetFiles =>
          \A i \in 1..Len(gf'.sources) :
             LET key == CacheKey(gf'.sources[i], gf'.category) IN
             gf'.exchanges[i].first = NotRequested =>
                cache'[key].data = cache[key].data ]_vars

(***************************************************************************)
(* Claims about the status bar (SpecStatus).                               *)
(***************************************************************************)
\* C37: a message shown with showLoading stays visible until hide() is
\* called or another message replaces it: it is never hidden by its timer.
C37_LoadingPersistent ==
    ~(bar.kind = "loading" /\ ~bar.visible /\ bar.hiddenBy = "timer")

(***************************************************************************)
(* Claims about the two stores of the source list (SpecStore).             *)
(***************************************************************************)
\* C38: after setSources(context, S) has completed for a non-empty list S,
\* getSources(context) returns S, whatever the stores held before, and also
\* when the write to the settings has failed.
C38_SetThenGet ==
    store.pc = "got" => store.result = store.set

=============================================================================
